---- MODULE Spec2Model ----
(***************************************************************************)
(* Model of the CASTaskCleaner plugin                                      *)
(* (src/plugins.v2/castaskcleaner/__init__.py): the webhook handler with   *)
(* its de-duplication deque, and the reconciliation of one fetched task    *)
(* list (delete completed tasks, skip the rest, collect the tv tasks that  *)
(* are still processing).                                                  *)
(***************************************************************************)
EXTENDS Integers, Sequences, FiniteSets, TLC

VARIABLES
    \* ---- configuration and webhook handler (handle_media_added) ----
    enabled,            \* self._enabled
    server,             \* self._server
    event_cache,        \* self._event_cache, oldest key first
    handlers,           \* per host thread: where it is in handle_media_added
    calls,              \* every call of handle_media_added, in the order begun
    threads,            \* every worker thread started, in the order started
    \* ---- reconciliation of one task_info (_process_and_delete_tasks) ----
    task_info,          \* the dict built by _get_task_info_by_title
    fetched,            \* number of entries of the task list read so far
    rpc,                \* position of the pass: "fetch", "loop", "done"
    idx,                \* 1-based position of the for loop in task_info.ids
    deleted_count,
    skipped_count,
    processing_tasks,
    delete_log,         \* every call of _delete_cloud189_task: [id, resp, ok]
    \* ---- the rest of one pass (_delayed_process) ----
    notify,             \* self._notify
    page,               \* page of _get_task_info_by_title's while loop
    total_pages,        \* total_pages of the same loop
    page_start,         \* value of fetched when the current page's list began
    attempt,            \* attempts made by the _safe_request in progress
    http_log,           \* every GET attempt and every backoff sleep, in order
    fetch_state,        \* "pending", "ok" or "failed" (the fetch returned None)
    status_line,        \* the status distribution logged after the fetch
    notifications,      \* every message handed to post_message, in order
    passes,             \* the worker threads that run _delayed_process, each
                        \* with its position, its results and its exception
    \* ---- what the remote sent ----
    task_list,          \* the entries of the task lists read so far, as sent
    remote,             \* ids of the completed tasks the remote service holds
    \* ---- the configuration (init_plugin) ----
    host,               \* self._host, a string as the tuple of its characters
    api_key,            \* self._api_key, likewise
    init_log,           \* every call of init_plugin: its config and its result
    \* ---- the ranking plugin (maoyanrank) ----
    history,            \* the plugin data stored under 'history'
    refresh,            \* the __refresh_maoyan in progress and its local list
    sub_log,            \* every ranked title set_sub handled, with its outcome
    rank,               \* the attributes init_plugin sets, and self._scheduler
    schedulers,         \* every BackgroundScheduler created, with its state
    saved_config        \* the config last passed to update_config

rvars == <<task_info, fetched, rpc, idx, deleted_count, skipped_count,
           processing_tasks, delete_log>>

hvars == <<enabled, server, event_cache, handlers, calls, threads>>

pvars == <<notify, page, total_pages, page_start, attempt, http_log,
           fetch_state, status_line, notifications, passes>>

xvars == <<task_list, remote, host, api_key, init_log,
           history, refresh, sub_log, rank, schedulers, saved_config>>

vars == <<enabled, server, event_cache, handlers, calls, threads,
          task_info, fetched, rpc, idx, deleted_count, skipped_count,
          processing_tasks, delete_log,
          notify, page, total_pages, page_start, attempt, http_log,
          fetch_state, status_line, notifications, passes,
          task_list, remote, host, api_key, init_log,
          history, refresh, sub_log, rank, schedulers, saved_config>>

----------------------------------------------------------------------------
(* Bounds and input domains *)

\* longest task list the remote returns for one title
MaxTasks == 3

\* task ids as the remote sends them; "" stands for a missing (falsy) id
RemoteIds == {"", "t1", "t2"}

\* status strings as the remote sends them: the six known ones, one in
\* upper case and one the plugin does not know
RemoteStatuses == {"completed", "processing", "failed", "pending",
                   "shareLinkError", "unknown", "COMPLETED", "paused"}

RemoteVideoTypes == {"tv", "movie"}

\* answers the remote gives to a DELETE: a status code, or "none" when every
\* attempt of the request failed
DeleteResponses == {"200", "500", "none"}

\* TASK_STATUS_MAP.keys(), in the dict's order
StatusKeys == <<"completed", "processing", "failed", "pending",
                "shareLinkError", "unknown">>

Range(s) == {s[i] : i \in 1..Len(s)}

----------------------------------------------------------------------------
(* _get_task_info_by_title: accumulation of the fetched entries *)

\* str.lower() on the status strings of RemoteStatuses
Lower(s) ==
    CASE s = "COMPLETED" -> "completed"
      [] s = "shareLinkError" -> "sharelinkerror"
      [] OTHER -> s

RemoteTasks ==
    [id : RemoteIds, status : RemoteStatuses, videoType : RemoteVideoTypes,
     resourceName : {"Show"}, currentEpisodes : {3}, totalEpisodes : {10}]

EmptyTaskInfo ==
    [ids |-> <<>>,
     status |-> [x \in {} |-> ""],
     details |-> [x \in {} |-> ""],
     counts |-> [k \in Range(StatusKeys) |-> 0]]

\* the body of "for task in task_list" for one entry
AddTask(info, task) ==
    IF task.id = ""
    THEN info
    ELSE LET st == Lower(task.status)
             key == IF st \in DOMAIN info.counts THEN st ELSE "unknown"
         IN [ids |-> Append(info.ids, task.id),
             status |-> (task.id :> st) @@ info.status,
             details |-> (task.id :> [resourceName |-> task.resourceName,
                                      currentEpisodes |-> task.currentEpisodes,
                                      totalEpisodes |-> task.totalEpisodes,
                                      videoType |-> task.videoType])
                         @@ info.details,
             counts |-> [info.counts EXCEPT ![key] = @ + 1]]

\* the for loop reads the next entry of the task list
FetchTask(task) ==
    /\ rpc = "fetch"
    /\ fetched < MaxTasks
    /\ task_info' = AddTask(task_info, task)
    /\ fetched' = fetched + 1
    /\ UNCHANGED <<rpc, idx, deleted_count, skipped_count, processing_tasks,
                   delete_log>>
    /\ UNCHANGED hvars
    /\ UNCHANGED xvars
    /\ UNCHANGED pvars

\* TASK_STATUS_MAP: the label logged for a status key (the Chinese labels
\* are transliterated)
TaskStatusMap ==
    [completed |-> "yi wan jie", processing |-> "zhui ju zhong",
     failed |-> "shi bai", pending |-> "deng dai zhong",
     shareLinkError |-> "lian jie yi chang", unknown |-> "wei zhi"]

\* a plausible slip: the test "count > 0" is left out
FormatTaskStatusCounts_NoFilter(info) ==
    [i \in 1..Len(StatusKeys) |->
        <<TaskStatusMap[StatusKeys[i]], info.counts[StatusKeys[i]]>>]

\* _format_task_status_counts: the "label: count" pairs that are joined by
\* ", ", as a sequence of <<label, count>>
FormatTaskStatusCounts(info) ==
    LET Pair(i) == <<TaskStatusMap[StatusKeys[i]], info.counts[StatusKeys[i]]>>
        Positive(pr) == pr[2] > 0
    IN SelectSeq([i \in 1..Len(StatusKeys) |-> Pair(i)], Positive)

\* a plausible slip: the page counter is not advanced
NextPage_Same(p) == p

\* "page += 1" at the end of the while body
NextPage(p) == p + 1

\* the task list of the current page is exhausted and the while loop ends,
\* by "break" when the list was empty or because the next page exceeds
\* total_pages: task_info is returned and, when it holds an id, logged with
\* its status distribution and handed to _process_and_delete_tasks
\* (_delayed_process)
FetchReturn ==
    /\ rpc = "fetch"
    /\ fetched = page_start \/ NextPage(page) > total_pages
    /\ page' = IF fetched = page_start THEN page ELSE NextPage(page)
    /\ fetch_state' = "ok"
    /\ status_line' = IF task_info.ids = <<>>
                      THEN status_line
                      ELSE FormatTaskStatusCounts(task_info)
    /\ rpc' = IF task_info.ids = <<>> THEN "done" ELSE "loop"
    /\ UNCHANGED <<task_info, fetched, idx, deleted_count, skipped_count,
                   processing_tasks, delete_log>>
    /\ UNCHANGED <<notify, total_pages, page_start, attempt, http_log,
                   notifications, passes>>
    /\ UNCHANGED hvars
    /\ UNCHANGED xvars

\* the task list of the current page is exhausted and another page follows
PageEnd ==
    /\ rpc = "fetch"
    /\ fetched > page_start
    /\ NextPage(page) <= total_pages
    /\ page' = NextPage(page)
    /\ rpc' = "request"
    /\ UNCHANGED <<task_info, fetched, idx, deleted_count, skipped_count,
                   processing_tasks, delete_log>>
    /\ UNCHANGED <<notify, total_pages, page_start, attempt, http_log,
                   fetch_state, status_line, notifications, passes>>
    /\ UNCHANGED hvars
    /\ UNCHANGED xvars

----------------------------------------------------------------------------
(* _safe_request and the page requests of _get_task_info_by_title *)

\* max_retries of _safe_request
MaxRetries == 3

\* the largest totalPages the remote reports
MaxPages == 2

\* what one attempt of the GET can produce: a transport failure
\* (RequestException), a response with an error status, a response with a
\* status that is not 200, a 200 whose body is not the expected JSON, or a
\* 200 with a page; a page carries pagination.totalPages or no pagination
PageAnswers ==
    [kind : {"error", "http500", "http204", "malformed"},
     has_pagination : {FALSE}, totalPages : {1}]
      \cup [kind : {"page"}, has_pagination : {TRUE}, totalPages : 0..MaxPages]
      \cup [kind : {"page"}, has_pagination : {FALSE}, totalPages : {1}]

\* a plausible slip: the backoff sleep also follows the last attempt
SleepsAfter_Always(n) == TRUE

\* "if attempt < max_retries - 1" for the n-th attempt (attempt = n - 1)
SleepsAfter(n) == n - 1 < MaxRetries - 1

\* the attempts that end in the except clause of _safe_request
IsRetried(kind) == kind = "error"

\* a plausible slip: the tasks read before the failure are still returned
FetchFailure_Partial(info) ==
    IF info.ids = <<>> THEN "end" ELSE "loop"

\* "return None" of _get_task_info_by_title, then "if task_info is None:
\* return" of _delayed_process: where the pass continues
FetchFailure(info) == "end"

\* one attempt of the GET for the current page, with what follows it: the
\* backoff sleep, the final "return None", or the handling of the response
SafeRequest(ans) ==
    /\ rpc = "request"
    /\ page <= total_pages
    /\ attempt < MaxRetries
    /\ LET n == attempt + 1
           got == [kind |-> "GET", page |-> page, attempt |-> n,
                   out |-> ans.kind, has_pagination |-> ans.has_pagination,
                   totalPages |-> ans.totalPages]
           nap == [kind |-> "sleep", page |-> page, attempt |-> n,
                   out |-> "", has_pagination |-> FALSE, totalPages |-> 1]
       IN IF IsRetried(ans.kind)
          THEN /\ http_log' = IF SleepsAfter(n)
                              THEN http_log \o <<got, nap>>
                              ELSE Append(http_log, got)
               /\ IF n < MaxRetries
                  THEN /\ attempt' = n
                       /\ UNCHANGED <<rpc, fetch_state>>
                  ELSE /\ attempt' = 0
                       /\ fetch_state' = "failed"
                       /\ rpc' = FetchFailure(task_info)
               /\ UNCHANGED <<total_pages, page_start>>
          ELSE /\ http_log' = Append(http_log, got)
               /\ attempt' = 0
               /\ IF ans.kind = "page"
                  THEN /\ total_pages' = IF ans.has_pagination
                                         THEN ans.totalPages ELSE 1
                       /\ page_start' = fetched
                       /\ rpc' = "fetch"
                       /\ UNCHANGED fetch_state
                  ELSE /\ fetch_state' = "failed"
                       /\ rpc' = FetchFailure(task_info)
                       /\ UNCHANGED <<total_pages, page_start>>
    /\ UNCHANGED <<task_info, fetched, idx, deleted_count, skipped_count,
                   processing_tasks, delete_log>>
    /\ UNCHANGED <<notify, page, status_line, notifications, passes>>
    /\ UNCHANGED hvars
    /\ UNCHANGED xvars

----------------------------------------------------------------------------
(* _delete_cloud189_task and _process_and_delete_tasks *)

\* a plausible slip: any response counts as a confirmation
DeleteCloud189Task_AnyResponse(task_id, resp) ==
    task_id # "" /\ resp \notin {"none", "exception"}

\* the boolean _delete_cloud189_task returns when the remote answers resp
DeleteCloud189Task(task_id, resp) ==
    task_id # "" /\ resp = "200"

\* task_info["status"].get(task_id, "unknown")
StatusOf(info, task_id) ==
    IF task_id \in DOMAIN info.status THEN info.status[task_id] ELSE "unknown"

\* task_detail.get("videoType") of task_info["details"].get(task_id, {})
VideoTypeOf(info, task_id) ==
    IF task_id \in DOMAIN info.details
    THEN info.details[task_id].videoType ELSE "none"

\* the dict appended to processing_tasks
ProcessingEntry(info, task_id) ==
    [id |-> task_id,
     name |-> info.details[task_id].resourceName,
     current |-> info.details[task_id].currentEpisodes,
     total |-> info.details[task_id].totalEpisodes]

\* a plausible slip: every processing task is recorded, whatever its type
IsProcessingTv_AnyType(info, task_id) ==
    StatusOf(info, task_id) = "processing"

\* the condition under which a skipped task is recorded as in progress
IsProcessingTv(info, task_id) ==
    StatusOf(info, task_id) = "processing" /\ VideoTypeOf(info, task_id) = "tv"

\* a plausible slip: failed tasks are cleaned up as well
IsDeletable_OrFailed(info, task_id) ==
    StatusOf(info, task_id) \in {"completed", "failed"}

\* the condition under which the delete collaborator is called
IsDeletable(info, task_id) ==
    StatusOf(info, task_id) = "completed"

\* a plausible slip: the counter is incremented before the result is tested
DeletedAfter_Always(n, ok) == n + 1

\* deleted_count after a delete attempt that returned ok
DeletedAfter(n, ok) == IF ok THEN n + 1 ELSE n

\* a plausible slip: the skipped counter is never incremented
SkippedAfter_Forgotten(n) == n

\* skipped_count after a task that is not completed
SkippedAfter(n) == n + 1

\* one iteration of "for task_id in task_info['ids']"
ReconcileStep(resp) ==
    /\ rpc = "loop"
    /\ idx <= Len(task_info.ids)
    /\ LET task_id == task_info.ids[idx]
       IN IF IsDeletable(task_info, task_id)
          THEN LET ok == DeleteCloud189Task(task_id, resp)
               IN /\ delete_log' = Append(delete_log,
                                          [id |-> task_id, resp |-> resp, ok |-> ok])
                  /\ deleted_count' = DeletedAfter(deleted_count, ok)
                  /\ UNCHANGED <<skipped_count, processing_tasks>>
          ELSE /\ skipped_count' = SkippedAfter(skipped_count)
               /\ processing_tasks' =
                    IF IsProcessingTv(task_info, task_id)
                    THEN Append(processing_tasks, ProcessingEntry(task_info, task_id))
                    ELSE processing_tasks
               /\ UNCHANGED <<deleted_count, delete_log>>
    /\ idx' = idx + 1
    /\ UNCHANGED <<task_info, fetched, rpc>>
    /\ UNCHANGED hvars
    /\ UNCHANGED xvars
    /\ UNCHANGED pvars

\* the loop is exhausted: the result dict is returned
ReconcileReturn ==
    /\ rpc = "loop"
    /\ idx > Len(task_info.ids)
    /\ rpc' = "done"
    /\ UNCHANGED <<task_info, fetched, idx, deleted_count, skipped_count,
                   processing_tasks, delete_log>>
    /\ UNCHANGED hvars
    /\ UNCHANGED xvars
    /\ UNCHANGED pvars

----------------------------------------------------------------------------
(* _maybe_send_notifications and the two notifications *)

\* the emoji chosen for a task with the given remaining episodes
\* ("complete", "urgent", "soon" and "default" stand for the four emoji)
Marker(remaining) ==
    IF remaining = 0 THEN "complete"
    ELSE IF remaining <= 5 THEN "urgent"
    ELSE IF remaining <= 10 THEN "soon"
    ELSE "default"

\* a plausible slip: the remaining episodes are clamped at zero
ProcessingLine_Clamped(task) ==
    LET remaining == IF task.total - task.current < 0
                     THEN 0 ELSE task.total - task.current
    IN [type |-> "task", marker |-> Marker(remaining), name |-> task.name,
        current |-> task.current, total |-> task.total,
        remaining |-> remaining]

\* the line appended to lines for one task
ProcessingLine(task) ==
    LET remaining == task.total - task.current
    IN [type |-> "task", marker |-> Marker(remaining), name |-> task.name,
        current |-> task.current, total |-> task.total,
        remaining |-> remaining]

\* the text of the processing notification, as its sequence of lines: the
\* task lines joined by line breaks, then a line break and the time
ProcessingText(tasks) ==
    [i \in 1..Len(tasks) |-> ProcessingLine(tasks[i])]
        \o <<[type |-> "time"]>>

\* the text of the clean notification, as its sequence of lines
CleanText(count) ==
    <<[type |-> "blank"], [type |-> "media"],
      [type |-> "clean", count |-> count], [type |-> "time"]>>

\* a plausible slip: the notify switch is not consulted
ProcessingGate_IgnoreNotify(on, tasks) == tasks # <<>>

\* the conditions under which the processing notification is posted
ProcessingGate(on, tasks) == on /\ tasks # <<>>

\* a plausible slip: "elif" instead of "if", the clean notification is only
\* considered when there was no task in progress
CleanGate_Elif(on, count, tasks) == on /\ count > 0 /\ tasks = <<>>

\* the conditions under which the clean notification is posted in a pass
\* whose list of tasks in progress is tasks
CleanGate(on, count, tasks) == on /\ count > 0

\* _send_processing_notification: the messages posted after the call
SendProcessingNotification(posted, tasks) ==
    IF ProcessingGate(notify, tasks)
    THEN Append(posted, [kind |-> "processing", text |-> ProcessingText(tasks)])
    ELSE posted

\* _send_clean_notification: the messages posted after the call
SendCleanNotification(posted, count, tasks) ==
    IF CleanGate(notify, count, tasks)
    THEN Append(posted, [kind |-> "clean", text |-> CleanText(count)])
    ELSE posted

\* a plausible slip: the two "if" blocks are in the other order
SendNotifications_CleanFirst(posted, tasks, count) ==
    SendProcessingNotification(SendCleanNotification(posted, count, tasks), tasks)

\* the two "if" blocks of _maybe_send_notifications, in their order
SendNotifications(posted, tasks, count) ==
    SendCleanNotification(SendProcessingNotification(posted, tasks), count, tasks)

\* the pre-delay of _delayed_process is over (or there was none): the fetch
\* begins
PreDelay ==
    /\ rpc = "delay"
    /\ rpc' = "request"
    /\ UNCHANGED <<task_info, fetched, idx, deleted_count, skipped_count,
                   processing_tasks, delete_log>>
    /\ UNCHANGED pvars
    /\ UNCHANGED hvars
    /\ UNCHANGED xvars

\* _maybe_send_notifications with the result of _process_and_delete_tasks,
\* the last step of a pass
MaybeSendNotifications ==
    /\ rpc = "done"
    /\ task_info.ids # <<>>
    /\ notifications' = SendNotifications(notifications, processing_tasks,
                                          deleted_count)
    /\ rpc' = "end"
    /\ UNCHANGED <<task_info, fetched, idx, deleted_count, skipped_count,
                   processing_tasks, delete_log>>
    /\ UNCHANGED <<notify, page, total_pages, page_start, attempt, http_log,
                   fetch_state, status_line, passes>>
    /\ UNCHANGED hvars
    /\ UNCHANGED xvars

----------------------------------------------------------------------------
(* handle_media_added: the de-duplication deque, the filters, the thread start *)

\* maxlen of the deque self._event_cache
EventCacheMaxLen == 200

\* number of calls of handle_media_added the host makes
MaxCalls == 3

\* calls made after the deque has filled up (SpecCache)
MaxExtraCalls == 3

\* host threads that deliver webhook events
Handlers == {"h1", "h2"}

Servers == {"emby", "custom"}
Channels == {"emby", "custom"}
EventNames == {"library.new", "deep.delete"}

\* the media items of the server: item_id, media_type, item_name and the
\* SeriesName of json_object ("" when the payload carries none)
Items ==
    {[item_id |-> "i1", media_type |-> "movie", item_name |-> "Foo",
      json_object |-> "dict", series_name |-> ""],
     [item_id |-> "i2", media_type |-> "Episode", item_name |-> "S01E02",
      json_object |-> "dict", series_name |-> "Bar"],
     [item_id |-> "i3", media_type |-> "movie", item_name |-> "",
      json_object |-> "dict", series_name |-> "Bar"]}

\* json_object is "dict" (a dict), "str" (a JSON string of a dict) or
\* "badstr" (a string that json.loads rejects); series_name is the
\* Item.SeriesName it carries
MakeEvent(it, e, c) ==
    [item_id |-> it.item_id, event |-> e, channel |-> c,
     media_type |-> it.media_type, item_name |-> it.item_name,
     json_object |-> it.json_object, series_name |-> it.series_name]

Events == {MakeEvent(it, e, c) : it \in Items, e \in EventNames, c \in Channels}

\* f"{item_id}_{event}_{channel}"
UniqueKey(ev) == ev.item_id \o "_" \o ev.event \o "_" \o ev.channel

\* a plausible slip: only the newest key is compared
SeenBefore_NewestOnly(key) ==
    event_cache # <<>> /\ event_cache[Len(event_cache)] = key

\* unique_key in self._event_cache
SeenBefore(key) == key \in Range(event_cache)

\* a plausible slip: maxlen is enforced one element too late
DequeAppend_OneTooMany(q, x) ==
    IF Len(q) > EventCacheMaxLen THEN Append(Tail(q), x) ELSE Append(q, x)

\* a plausible slip: the key is never stored
DequeAppend_Dropped(q, x) == q

\* deque(maxlen=200).append: a full deque drops its oldest element
DequeAppend(q, x) ==
    IF Len(q) >= EventCacheMaxLen THEN Append(Tail(q), x) ELSE Append(q, x)

\* a plausible slip: the channel is not compared
ChannelMatches_Any(ev) == TRUE

\* event_channel != self._server
ChannelMatches(ev) == ev.channel = server

\* the allow-list of the configured server, with the dict's default
ExpectedEvents ==
    IF server \in {"emby", "jellyfin", "plex"}
    THEN {"library.new"} ELSE {"library.new"}

\* media_type.lower() on the media types of Items and TitleItems
LowerMediaType(m) ==
    CASE m = "Episode" -> "episode"
      [] m = "EPISODE" -> "episode"
      [] m = "Series" -> "series"
      [] m = "Show" -> "show"
      [] m = "TV" -> "tv"
      [] OTHER -> m

\* series_name of the inner try block: Item.SeriesName of the parsed
\* json_object, "" when there is none or json.loads raises
ParsedSeriesName(ev) ==
    IF ev.json_object \in {"dict", "str"} THEN ev.series_name ELSE ""

\* a plausible slip: the series name is taken for every media type
SearchTitle_AnyType(ev) ==
    IF ParsedSeriesName(ev) # "" THEN ParsedSeriesName(ev) ELSE ev.item_name

\* the search title: SeriesName for the tv-like media types, else item_name
SearchTitle(ev) ==
    IF /\ ev.media_type # ""
       /\ LowerMediaType(ev.media_type) \in {"tv", "series", "episode", "season", "show"}
       /\ ParsedSeriesName(ev) # ""
    THEN ParsedSeriesName(ev)
    ELSE ev.item_name

\* what the rest of handle_media_added does with an event whose key was
\* stored: the reason it returns early, or "started"
FilterOutcome(ev) ==
    IF ~ChannelMatches(ev) THEN "channel"
    ELSE IF ev.event \notin ExpectedEvents THEN "event"
    ELSE IF ev.event = "deep.delete" THEN "delete"
    ELSE IF SearchTitle(ev) = "" THEN "notitle"
    ELSE "started"

DoneCalls == {c \in 1..Len(calls) : calls[c].outcome # "running"}

\* a plausible slip: the key is stored after the checks, for admitted events
\* only
StoreKey_AdmittedOnly(q, key, outcome) ==
    IF outcome = "started" THEN DequeAppend(q, key) ELSE q

\* self._event_cache.append(unique_key), which precedes the channel, event
\* and title checks: the key is stored whatever their outcome
StoreKey(q, key, outcome) == DequeAppend(q, key)

\* a plausible slip: the thread is started once by start() and its target
\* is run a second time
StartProcessingThread_Twice(ths, ev, c) ==
    ths \o <<[title |-> SearchTitle(ev), media_type |-> ev.media_type, call |-> c],
             [title |-> SearchTitle(ev), media_type |-> ev.media_type, call |-> c]>>

\* _start_processing_thread: one daemon thread with target _delayed_process
\* is created and started for the call c; its run is not awaited
StartProcessingThread(ths, ev, c) ==
    Append(ths, [title |-> SearchTitle(ev), media_type |-> ev.media_type,
                 call |-> c])

\* a host thread enters handle_media_added with ev and runs it up to the
\* membership test: a disabled plugin and a key found in the deque return at
\* once, any other call goes on to store its key
HandleBegin(h, ev) ==
    /\ handlers[h].pc = "idle"
    /\ LET key == UniqueKey(ev)
           outcome == IF ~enabled THEN "disabled"
                      ELSE IF SeenBefore(key) THEN "duplicate"
                      ELSE "running"
       IN /\ calls' = Append(calls, [ev |-> ev, key |-> key, outcome |-> outcome,
                                     before |-> DoneCalls])
          /\ handlers' = IF outcome = "running"
                         THEN [handlers EXCEPT ![h] = [pc |-> "append",
                                                      call |-> Len(calls) + 1]]
                         ELSE handlers
    /\ UNCHANGED <<enabled, server, event_cache, threads>>
    /\ UNCHANGED rvars
    /\ UNCHANGED pvars
    /\ UNCHANGED xvars

\* the rest of the call: the key is appended, the event is filtered, and
\* _start_processing_thread starts the worker thread of the pass
HandleAppend(h) ==
    /\ handlers[h].pc = "append"
    /\ LET c == handlers[h].call
           ev == calls[c].ev
           outcome == FilterOutcome(ev)
       IN /\ event_cache' = StoreKey(event_cache, calls[c].key, outcome)
          /\ calls' = [calls EXCEPT ![c].outcome = outcome]
          /\ threads' = IF outcome = "started"
                        THEN StartProcessingThread(threads, ev, c)
                        ELSE threads
    /\ handlers' = [handlers EXCEPT ![h] = [pc |-> "idle", call |-> 0]]
    /\ UNCHANGED <<enabled, server>>
    /\ UNCHANGED rvars
    /\ UNCHANGED pvars
    /\ UNCHANGED xvars

----------------------------------------------------------------------------
(* The try/except boundaries of handle_media_added and _delayed_process *)

\* a plausible slip: the except clause logs and raises again
ExceptException_Reraised == "raised"

\* "except Exception as e" around the body of handle_media_added and of
\* _delayed_process: the exception is logged and the function returns
ExceptException == "logged"

\* an exception is raised in handle_media_added after the key was stored
\* (thread.start() fails, an attribute of the event is of the wrong type)
HandleRaise(h) ==
    /\ handlers[h].pc = "append"
    /\ LET c == handlers[h].call
       IN /\ event_cache' = DequeAppend(event_cache, calls[c].key)
          /\ calls' = [calls EXCEPT ![c].outcome = ExceptException]
    /\ handlers' = [handlers EXCEPT ![h] = [pc |-> "idle", call |-> 0]]
    /\ UNCHANGED <<enabled, server, threads>>
    /\ UNCHANGED rvars
    /\ UNCHANGED pvars
    /\ UNCHANGED xvars

\* the threads whose target has begun to run
RunningThreads == {passes[i].thread : i \in 1..Len(passes)}

\* the worker thread t enters _delayed_process
PassStart(t) ==
    /\ t \in 1..Len(threads)
    /\ t \notin RunningThreads
    /\ passes' = Append(passes, [thread |-> t, pc |-> "fetch", fetch |-> "pending",
                                 deleted |-> 0, notified |-> FALSE,
                                 error |-> "none"])
    /\ UNCHANGED <<notify, page, total_pages, page_start, attempt, http_log,
                   fetch_state, status_line, notifications>>
    /\ UNCHANGED rvars
    /\ UNCHANGED hvars
    /\ UNCHANGED xvars

\* _get_task_info_by_title returns to pass i: a task_info with ids ("ids"),
\* one without ("noids") or None ("none"); only the first lets the pass go on
PassFetch(i, res) ==
    /\ i \in 1..Len(passes)
    /\ passes[i].pc = "fetch"
    /\ passes' = [passes EXCEPT ![i].fetch = res,
                                ![i].pc = IF res = "ids" THEN "reconcile" ELSE "end"]
    /\ UNCHANGED <<notify, page, total_pages, page_start, attempt, http_log,
                   fetch_state, status_line, notifications>>
    /\ UNCHANGED rvars
    /\ UNCHANGED hvars
    /\ UNCHANGED xvars

\* _process_and_delete_tasks returns to pass i with deleted_count n
PassReconcile(i, n) ==
    /\ i \in 1..Len(passes)
    /\ passes[i].pc = "reconcile"
    /\ passes' = [passes EXCEPT ![i].deleted = n, ![i].pc = "notify"]
    /\ UNCHANGED <<notify, page, total_pages, page_start, attempt, http_log,
                   fetch_state, status_line, notifications>>
    /\ UNCHANGED rvars
    /\ UNCHANGED hvars
    /\ UNCHANGED xvars

\* _maybe_send_notifications returns to pass i, which ends
PassNotify(i) ==
    /\ i \in 1..Len(passes)
    /\ passes[i].pc = "notify"
    /\ passes' = [passes EXCEPT ![i].notified = TRUE, ![i].pc = "end"]
    /\ UNCHANGED <<notify, page, total_pages, page_start, attempt, http_log,
                   fetch_state, status_line, notifications>>
    /\ UNCHANGED rvars
    /\ UNCHANGED hvars
    /\ UNCHANGED xvars

\* the step pass i is at raises an exception, which reaches the except
\* clause of _delayed_process
PassRaise(i) ==
    /\ i \in 1..Len(passes)
    /\ passes[i].pc \in {"fetch", "reconcile", "notify"}
    /\ passes' = [passes EXCEPT ![i].error = ExceptException, ![i].pc = "end"]
    /\ UNCHANGED <<notify, page, total_pages, page_start, attempt, http_log,
                   fetch_state, status_line, notifications>>
    /\ UNCHANGED rvars
    /\ UNCHANGED hvars
    /\ UNCHANGED xvars

----------------------------------------------------------------------------
(* Specifications *)

\* the state of the handler after init_plugin
InitHandler ==
    /\ enabled \in BOOLEAN
    /\ server \in Servers
    /\ event_cache = <<>>
    /\ handlers = [h \in Handlers |-> [pc |-> "idle", call |-> 0]]
    /\ calls = <<>>
    /\ threads = <<>>

\* the class attributes _host and _api_key (both None, which every test of
\* the code treats as the empty string), before any init_plugin
InitConfigVars ==
    /\ host = <<>>
    /\ api_key = <<>>
    /\ init_log = <<>>

\* the ranking plugin: no stored history, no refresh in progress
InitRankVars ==
    /\ history = <<>>
    /\ refresh = [pc |-> "idle", history |-> <<>>, done |-> 0]
    /\ sub_log = <<>>

\* the ranking plugin's class attributes _enabled, _onlyonce, _clear, _cron
\* and _scheduler (0 stands for None), no config saved, and no call of
\* init_plugin or stop_service made (calls counts them, last describes the
\* latest)
InitSchedulerVars ==
    /\ rank = [enabled |-> FALSE, onlyonce |-> FALSE, clear |-> FALSE,
               cron |-> "", scheduler |-> 0, calls |-> 0,
               last |-> [call |-> "none"]]
    /\ schedulers = <<>>
    /\ saved_config = <<>>

\* the local variables of a pass at its start
InitPassVars ==
    /\ InitConfigVars
    /\ InitRankVars
    /\ InitSchedulerVars
    /\ task_info = EmptyTaskInfo
    /\ fetched = 0
    /\ idx = 1
    /\ deleted_count = 0
    /\ skipped_count = 0
    /\ processing_tasks = <<>>
    /\ delete_log = <<>>
    /\ page = 1
    /\ total_pages = 1
    /\ page_start = 0
    /\ attempt = 0
    /\ http_log = <<>>
    /\ fetch_state = "pending"
    /\ status_line = <<>>
    /\ notifications = <<>>
    /\ passes = <<>>
    /\ task_list = <<>>
    /\ remote = {}

\* a pass whose task list has arrived and is about to be read
InitPass == InitPassVars /\ rpc = "fetch"

\* the host delivers up to MaxCalls webhook events on its threads
Init == InitHandler /\ InitPass /\ notify = FALSE

Next ==
    \/ \E h \in Handlers, ev \in Events :
          Len(calls) < MaxCalls /\ HandleBegin(h, ev)
    \/ \E h \in Handlers : HandleAppend(h)

Spec == Init /\ [][Next]_vars

\* one pass: the task list of its title is read, then reconciled
InitReconcile ==
    /\ InitPass
    /\ notify = FALSE
    /\ enabled = TRUE
    /\ server = "emby"
    /\ event_cache = <<>>
    /\ handlers = [h \in Handlers |-> [pc |-> "idle", call |-> 0]]
    /\ calls = <<>>
    /\ threads = <<>>

NextReconcile ==
    \/ \E task \in RemoteTasks : FetchTask(task)
    \/ FetchReturn
    \/ \E resp \in DeleteResponses : ReconcileStep(resp)
    \/ ReconcileReturn

SpecReconcile == InitReconcile /\ [][NextReconcile]_vars

\* the tasks the remote lists in SpecPass: a completed one, a series in
\* progress and an entry without id
PassTasks ==
    {t \in RemoteTasks :
        /\ t.videoType = "tv"
        /\ <<t.id, t.status>> \in {<<"t1", "completed">>, <<"t2", "processing">>,
                                    <<"", "completed">>}}

\* the answers the remote gives to a DELETE in SpecPass
PassDeleteResponses == {"200", "500"}

\* one whole pass of _delayed_process: the pages of the task list are
\* requested and read, the tasks reconciled, the notifications sent
InitFullPass ==
    /\ InitPassVars
    /\ rpc = "delay"
    /\ notify \in BOOLEAN
    /\ enabled = TRUE
    /\ server = "emby"
    /\ event_cache = <<>>
    /\ handlers = [h \in Handlers |-> [pc |-> "idle", call |-> 0]]
    /\ calls = <<>>
    /\ threads = <<>>

NextPass ==
    \/ PreDelay
    \/ \E ans \in PageAnswers : SafeRequest(ans)
    \/ \E task \in PassTasks : FetchTask(task)
    \/ PageEnd
    \/ FetchReturn
    \/ \E resp \in PassDeleteResponses : ReconcileStep(resp)
    \/ ReconcileReturn
    \/ MaybeSendNotifications

SpecPass == InitFullPass /\ [][NextPass]_vars

\* the number of tasks in progress handed to the notification (SpecNotify)
MaxNotifyTasks == 2

\* currentEpisodes and totalEpisodes as the remote sends them; 0 is also what
\* the plugin takes when the field is missing, and the differences cover
\* -3, 0, 1, 5, 6, 10, 11 and more
EpisodesSeen == {0, 3}
EpisodesTotal == {0, 3, 4, 8, 9, 13, 14}

\* the i-th entry of a task list of series in progress
ProgressTask(i, ep) ==
    [id |-> "t" \o ToString(i), status |-> "processing", videoType |-> "tv",
     resourceName |-> "Show" \o ToString(i),
     currentEpisodes |-> ep[1], totalEpisodes |-> ep[2]]

\* task_info after the entries of a list were read in order
RECURSIVE TaskInfoOf(_)
TaskInfoOf(list) ==
    IF list = <<>>
    THEN EmptyTaskInfo
    ELSE AddTask(TaskInfoOf(SubSeq(list, 1, Len(list) - 1)), list[Len(list)])

\* a pass at the return of _process_and_delete_tasks, for a task list of
\* series in progress: every task was skipped and recorded
InitNotify ==
    \E n \in 1..MaxNotifyTasks :
      \E eps \in [1..n -> EpisodesSeen \X EpisodesTotal] :
        LET list == [i \in 1..n |-> ProgressTask(i, eps[i])]
            info == TaskInfoOf(list)
        IN /\ task_info = info
           /\ fetched = n
           /\ rpc = "done"
           /\ idx = n + 1
           /\ deleted_count = 0
           /\ skipped_count = n
           /\ processing_tasks = [i \in 1..n |-> ProcessingEntry(info, list[i].id)]
           /\ delete_log = <<>>
           /\ notify \in BOOLEAN
           /\ page = 2
           /\ total_pages = 1
           /\ page_start = 0
           /\ attempt = 0
           /\ http_log = <<>>
           /\ fetch_state = "ok"
           /\ status_line = FormatTaskStatusCounts(info)
           /\ notifications = <<>>
           /\ passes = <<>>
           /\ task_list = <<>>
           /\ remote = {}
           /\ InitConfigVars
           /\ InitRankVars
           /\ InitSchedulerVars
           /\ enabled = TRUE
           /\ server = "emby"
           /\ event_cache = <<>>
           /\ handlers = [h \in Handlers |-> [pc |-> "idle", call |-> 0]]
           /\ calls = <<>>
           /\ threads = <<>>

NextNotify == MaybeSendNotifications

SpecNotify == InitNotify /\ [][NextNotify]_vars

\* the number of calls of _delete_cloud189_task in SpecDelete
MaxDeleteCalls == 2

\* what the DELETE request of _delete_cloud189_task can come to: a response
\* with status 200, 204 or 500, no response after the retries ("none"), or
\* an exception raised inside the try block
DeleteOutcomes == {"200", "204", "500", "none", "exception"}

\* _delete_cloud189_task is called with an id and its result counted the way
\* _process_and_delete_tasks counts it
DeleteCall(task_id, resp) ==
    /\ rpc = "loop"
    /\ Len(delete_log) < MaxDeleteCalls
    /\ LET ok == DeleteCloud189Task(task_id, resp)
       IN /\ delete_log' = Append(delete_log,
                                  [id |-> task_id, resp |-> resp, ok |-> ok])
          /\ deleted_count' = DeletedAfter(deleted_count, ok)
    /\ UNCHANGED <<task_info, fetched, rpc, idx, skipped_count,
                   processing_tasks>>
    /\ UNCHANGED pvars
    /\ UNCHANGED hvars
    /\ UNCHANGED xvars

\* the delete collaborator on its own, for every id and every outcome of
\* the request
InitDelete ==
    /\ InitPassVars
    /\ rpc = "loop"
    /\ notify = FALSE
    /\ enabled = TRUE
    /\ server = "emby"
    /\ event_cache = <<>>
    /\ handlers = [h \in Handlers |-> [pc |-> "idle", call |-> 0]]
    /\ calls = <<>>
    /\ threads = <<>>

NextDelete == \E task_id \in RemoteIds, resp \in DeleteOutcomes : DeleteCall(task_id, resp)

SpecDelete == InitDelete /\ [][NextDelete]_vars

\* the number of calls of handle_media_added in SpecFaults
MaxFaultCalls == 3

\* the events the host delivers in SpecFaults: one new-item event per item
FaultEvents == {MakeEvent(it, "library.new", "emby") : it \in Items}

\* what _get_task_info_by_title returns to a pass of SpecFaults
FetchResults == {"ids", "noids", "none"}

\* one host thread delivers events, the passes they start run concurrently,
\* and every call and every pass may raise an exception at any step
InitFaults ==
    /\ InitPass
    /\ notify = FALSE
    /\ enabled = TRUE
    /\ server = "emby"
    /\ event_cache = <<>>
    /\ handlers = [h \in Handlers |-> [pc |-> "idle", call |-> 0]]
    /\ calls = <<>>
    /\ threads = <<>>

NextFaults ==
    \/ \E ev \in FaultEvents :
          Len(calls) < MaxFaultCalls /\ HandleBegin("h1", ev)
    \/ HandleAppend("h1")
    \/ HandleRaise("h1")
    \/ \E t \in 1..Len(threads) : PassStart(t)
    \/ \E i \in 1..Len(passes), res \in FetchResults : PassFetch(i, res)
    \/ \E i \in 1..Len(passes), n \in 0..1 : PassReconcile(i, n)
    \/ \E i \in 1..Len(passes) : PassNotify(i)
    \/ \E i \in 1..Len(passes) : PassRaise(i)

SpecFaults == InitFaults /\ [][NextFaults]_vars

\* the number of entries read in SpecCounts
MaxCountTasks == 2

\* the entries the remote lists in SpecCounts: every id and status
CountTasks == {t \in RemoteTasks : t.videoType = "tv"}

\* the body of "for task in task_list" for one entry, with the entry as the
\* remote sent it kept in task_list
ReadTask(task) ==
    /\ rpc = "fetch"
    /\ fetched < MaxCountTasks
    /\ task_info' = AddTask(task_info, task)
    /\ fetched' = fetched + 1
    /\ task_list' = Append(task_list, task)
    /\ UNCHANGED remote
    /\ UNCHANGED <<host, api_key, init_log, history, refresh, sub_log, rank,
                   schedulers, saved_config>>
    /\ UNCHANGED <<rpc, idx, deleted_count, skipped_count, processing_tasks,
                   delete_log>>
    /\ UNCHANGED hvars
    /\ UNCHANGED pvars

\* the entries of one task list are read and counted
InitCounts ==
    /\ InitPass
    /\ notify = FALSE
    /\ enabled = TRUE
    /\ server = "emby"
    /\ event_cache = <<>>
    /\ handlers = [h \in Handlers |-> [pc |-> "idle", call |-> 0]]
    /\ calls = <<>>
    /\ threads = <<>>

NextCounts == \E task \in CountTasks : ReadTask(task)

SpecCounts == InitCounts /\ [][NextCounts]_vars

\* the number of calls of handle_media_added in SpecTitle
MaxTitleCalls == 2

\* media types, payloads and names of the items in SpecTitle
TitleMediaTypes == {"", "movie", "tv", "Series", "EPISODE", "season", "Show"}
TitlePayloads == {"dict", "str", "badstr"}

TitleItems ==
    {[item_id |-> mt \o "/" \o jo \o "/" \o sn \o "/" \o nm, media_type |-> mt,
      item_name |-> nm, json_object |-> jo, series_name |-> sn] :
        mt \in TitleMediaTypes, jo \in TitlePayloads, sn \in {"", "Bar"},
        nm \in {"", "Foo"}}

TitleEvents == {MakeEvent(it, "library.new", "emby") : it \in TitleItems}

\* one host thread delivers new-item events of every media type and payload
InitTitle ==
    /\ InitPass
    /\ notify = FALSE
    /\ enabled = TRUE
    /\ server = "emby"
    /\ event_cache = <<>>
    /\ handlers = [h \in Handlers |-> [pc |-> "idle", call |-> 0]]
    /\ calls = <<>>
    /\ threads = <<>>

NextTitle ==
    \/ \E ev \in TitleEvents :
          Len(calls) < MaxTitleCalls /\ HandleBegin("h1", ev)
    \/ HandleAppend("h1")

SpecTitle == InitTitle /\ [][NextTitle]_vars

\* SpecLive follows the page loop of _get_task_info_by_title without the
\* logs and without the contents of the entries, so that a remote that never
\* stops is a cycle: page numbers from PageCap on are identified (the loop
\* compares page only with the totalPages of the answer just read) and so
\* are entry counts from EntryCap on
PageCap == 3
EntryCap == 2

\* page + 1 and fetched + 1 under that identification
CappedPage(p) == IF p < PageCap THEN p + 1 ELSE p
CappedEntries(n) == IF n < EntryCap THEN n + 1 ELSE n

\* the answers to a page request in SpecLive: the kinds of PageAnswers, a
\* page carrying any totalPages up to one more than the page asked for
LiveAnswers ==
    [kind : {"error", "http500", "http204", "malformed"},
     has_pagination : {FALSE}, totalPages : {1}]
      \cup [kind : {"page"}, has_pagination : {TRUE}, totalPages : 0..(PageCap + 1)]
      \cup [kind : {"page"}, has_pagination : {FALSE}, totalPages : {1}]

\* one attempt of the GET for the current page and what follows it
LiveRequest(ans) ==
    /\ rpc = "request"
    /\ page <= total_pages
    /\ attempt < MaxRetries
    /\ IF IsRetried(ans.kind)
       THEN /\ IF attempt + 1 < MaxRetries
               THEN /\ attempt' = attempt + 1
                    /\ UNCHANGED <<rpc, fetch_state>>
               ELSE /\ attempt' = 0
                    /\ fetch_state' = "failed"
                    /\ rpc' = FetchFailure(task_info)
            /\ UNCHANGED <<total_pages, fetched>>
       ELSE /\ attempt' = 0
            /\ IF ans.kind = "page"
               THEN /\ total_pages' = IF ans.has_pagination
                                      THEN ans.totalPages ELSE 1
                    /\ fetched' = 0
                    /\ rpc' = "fetch"
                    /\ UNCHANGED fetch_state
               ELSE /\ fetch_state' = "failed"
                    /\ rpc' = FetchFailure(task_info)
                    /\ UNCHANGED <<total_pages, fetched>>
    /\ UNCHANGED <<task_info, idx, deleted_count, skipped_count,
                   processing_tasks, delete_log>>
    /\ UNCHANGED <<notify, page, page_start, http_log, status_line,
                   notifications, passes>>
    /\ UNCHANGED hvars
    /\ UNCHANGED xvars

\* the for loop reads one more entry of the current page (fetched counts
\* the entries of the page)
LiveRead ==
    /\ rpc = "fetch"
    /\ fetched' = CappedEntries(fetched)
    /\ fetched' # fetched
    /\ UNCHANGED <<task_info, rpc, idx, deleted_count, skipped_count,
                   processing_tasks, delete_log>>
    /\ UNCHANGED pvars
    /\ UNCHANGED hvars
    /\ UNCHANGED xvars

\* the list of the page is exhausted: "break" for an empty list, else
\* "page += 1" and the test of the while loop
LivePageEnd ==
    /\ rpc = "fetch"
    /\ IF fetched = 0
       THEN /\ fetch_state' = "ok"
            /\ rpc' = "done"
            /\ UNCHANGED page
       ELSE IF NextPage(page) <= total_pages
       THEN /\ page' = CappedPage(page)
            /\ rpc' = "request"
            /\ UNCHANGED fetch_state
       ELSE /\ page' = CappedPage(page)
            /\ fetch_state' = "ok"
            /\ rpc' = "done"
    /\ UNCHANGED <<task_info, fetched, idx, deleted_count, skipped_count,
                   processing_tasks, delete_log>>
    /\ UNCHANGED <<notify, total_pages, page_start, attempt, http_log,
                   status_line, notifications, passes>>
    /\ UNCHANGED hvars
    /\ UNCHANGED xvars

InitLive ==
    /\ InitPassVars
    /\ rpc = "request"
    /\ notify = FALSE
    /\ enabled = TRUE
    /\ server = "emby"
    /\ event_cache = <<>>
    /\ handlers = [h \in Handlers |-> [pc |-> "idle", call |-> 0]]
    /\ calls = <<>>
    /\ threads = <<>>

NextLive ==
    \/ \E ans \in LiveAnswers : LiveRequest(ans)
    \/ LiveRead
    \/ LivePageEnd

\* the worker thread is scheduled again and again and every attempt of a
\* request returns (timeout=10), so the pass takes a step whenever it can
SpecLive == InitLive /\ [][NextLive]_vars /\ WF_vars(NextLive)

\* the number of calls of handle_media_added in SpecShared
MaxSharedCalls == 2

\* two episodes of the same series arrive as two events: different item ids,
\* the same search title
SharedItems ==
    {[item_id |-> "e1", media_type |-> "Episode", item_name |-> "S01E01",
      json_object |-> "dict", series_name |-> "Bar"],
     [item_id |-> "e2", media_type |-> "Episode", item_name |-> "S01E02",
      json_object |-> "dict", series_name |-> "Bar"],
     [item_id |-> "e3", media_type |-> "Episode", item_name |-> "S01E03",
      json_object |-> "dict", series_name |-> "Bar"]}

SharedEvents == {MakeEvent(it, "library.new", "emby") : it \in SharedItems}

\* the completed tasks the remote may hold for the title
SharedIds == {"t1", "t2"}

\* the ids in the order in which the remote lists them
ListOf(ids) ==
    LET Held(x) == x \in ids
    IN SelectSeq(<<"t1", "t2">>, Held)

\* the worker thread t enters _delayed_process
SharedStart(t) ==
    /\ t \in 1..Len(threads)
    /\ t \notin RunningThreads
    /\ passes' = Append(passes, [thread |-> t, pc |-> "fetch", ids |-> <<>>,
                                 idx |-> 1, deleted |-> 0])
    /\ UNCHANGED <<notify, page, total_pages, page_start, attempt, http_log,
                   fetch_state, status_line, notifications>>
    /\ UNCHANGED rvars
    /\ UNCHANGED hvars
    /\ UNCHANGED xvars

\* _get_task_info_by_title returns to pass i the completed tasks the remote
\* holds for the title at that moment
SharedFetch(i) ==
    /\ i \in 1..Len(passes)
    /\ passes[i].pc = "fetch"
    /\ passes' = [passes EXCEPT ![i].ids = ListOf(remote),
                                ![i].pc = IF remote = {} THEN "end" ELSE "loop"]
    /\ UNCHANGED <<notify, page, total_pages, page_start, attempt, http_log,
                   fetch_state, status_line, notifications>>
    /\ UNCHANGED rvars
    /\ UNCHANGED hvars
    /\ UNCHANGED xvars

\* one iteration of the loop of _process_and_delete_tasks in pass i, for a
\* completed task: the DELETE is sent; the remote removes a task it holds
\* and answers 200, for a task it no longer holds it answers 404 or 200
SharedDelete(i, resp) ==
    /\ i \in 1..Len(passes)
    /\ passes[i].pc = "loop"
    /\ passes[i].idx <= Len(passes[i].ids)
    /\ LET task_id == passes[i].ids[passes[i].idx]
           ok == DeleteCloud189Task(task_id, resp)
       IN /\ resp \in (IF task_id \in remote THEN {"200"} ELSE {"404", "200"})
          /\ remote' = remote \ {task_id}
          /\ delete_log' = Append(delete_log,
                                  [id |-> task_id, resp |-> resp, ok |-> ok,
                                   pass |-> i, held |-> task_id \in remote])
          /\ passes' = [passes EXCEPT ![i].idx = @ + 1,
                                      ![i].deleted = DeletedAfter(@, ok)]
    /\ UNCHANGED <<task_info, fetched, rpc, idx, deleted_count, skipped_count,
                   processing_tasks>>
    /\ UNCHANGED <<notify, page, total_pages, page_start, attempt, http_log,
                   fetch_state, status_line, notifications>>
    /\ UNCHANGED hvars
    /\ UNCHANGED task_list
    /\ UNCHANGED <<host, api_key, init_log, history, refresh, sub_log, rank,
                   schedulers, saved_config>>

\* the loop of pass i is exhausted; the pass goes on to its notifications
\* and ends
SharedReturn(i) ==
    /\ i \in 1..Len(passes)
    /\ passes[i].pc = "loop"
    /\ passes[i].idx > Len(passes[i].ids)
    /\ passes' = [passes EXCEPT ![i].pc = "end"]
    /\ UNCHANGED <<notify, page, total_pages, page_start, attempt, http_log,
                   fetch_state, status_line, notifications>>
    /\ UNCHANGED rvars
    /\ UNCHANGED hvars
    /\ UNCHANGED xvars

\* one host thread delivers the events of the episodes; the remote holds
\* some completed tasks of the series
InitShared ==
    /\ task_info = EmptyTaskInfo
    /\ fetched = 0
    /\ idx = 1
    /\ deleted_count = 0
    /\ skipped_count = 0
    /\ processing_tasks = <<>>
    /\ delete_log = <<>>
    /\ page = 1
    /\ total_pages = 1
    /\ page_start = 0
    /\ attempt = 0
    /\ http_log = <<>>
    /\ fetch_state = "pending"
    /\ status_line = <<>>
    /\ notifications = <<>>
    /\ passes = <<>>
    /\ task_list = <<>>
    /\ remote \in SUBSET SharedIds
    /\ InitConfigVars
    /\ InitRankVars
    /\ InitSchedulerVars
    /\ rpc = "fetch"
    /\ notify = FALSE
    /\ enabled = TRUE
    /\ server = "emby"
    /\ event_cache = <<>>
    /\ handlers = [h \in Handlers |-> [pc |-> "idle", call |-> 0]]
    /\ calls = <<>>
    /\ threads = <<>>

NextShared ==
    \/ \E ev \in SharedEvents :
          Len(calls) < MaxSharedCalls /\ HandleBegin("h1", ev)
    \/ HandleAppend("h1")
    \/ \E t \in 1..Len(threads) : SharedStart(t)
    \/ \E i \in 1..Len(passes) : SharedFetch(i)
    \/ \E i \in 1..Len(passes), resp \in {"200", "404"} : SharedDelete(i, resp)
    \/ \E i \in 1..Len(passes) : SharedReturn(i)

SpecShared == InitShared /\ [][NextShared]_vars

\* the calls whose key was appended to the deque, in the order begun
Inserted ==
    LET Stored(c) == c.outcome \notin {"disabled", "duplicate", "running"}
    IN SelectSeq(calls, Stored)

\* the item ids the host sends next when it fills the deque: a new one and,
\* once EventCacheMaxLen keys were stored, the newest stored, one from the
\* middle, the oldest of the last EventCacheMaxLen stored and the one stored
\* before that
CacheItemIds ==
    LET ins == Inserted
        n == Len(ins)
    IN {ToString(n + 1)}
         \cup (IF n >= EventCacheMaxLen
               THEN {ins[n].ev.item_id,
                     ins[n - (EventCacheMaxLen \div 2)].ev.item_id,
                     ins[n - EventCacheMaxLen + 1].ev.item_id}
               ELSE {})
         \cup (IF n > EventCacheMaxLen
               THEN {ins[n - EventCacheMaxLen].ev.item_id}
               ELSE {})

CacheEvent(i) ==
    MakeEvent([item_id |-> i, media_type |-> "movie", item_name |-> "Foo",
               series_name |-> "", json_object |-> "dict"],
              "library.new", "emby")

\* one host thread delivers events of more items than the deque holds
InitCache ==
    /\ InitPass
    /\ notify = FALSE
    /\ enabled = TRUE
    /\ server = "emby"
    /\ event_cache = <<>>
    /\ handlers = [h \in Handlers |-> [pc |-> "idle", call |-> 0]]
    /\ calls = <<>>
    /\ threads = <<>>

NextCache ==
    \/ \E i \in CacheItemIds :
          /\ Len(calls) < EventCacheMaxLen + MaxExtraCalls
          /\ HandleBegin("h1", CacheEvent(i))
    \/ HandleAppend("h1")

SpecCache == InitCache /\ [][NextCache]_vars

----------------------------------------------------------------------------
(* init_plugin and _validate_config *)

\* the number of calls of init_plugin in SpecConfig
MaxInitCalls == 2

\* the number of calls of handle_media_added in SpecConfig
MaxConfigCalls == 2

\* the scheme test of _validate_config: the literal of startswith("http")
HttpPrefix == <<"h", "t", "t", "p">>

\* the scheme _validate_config puts in front of a host without one
HttpScheme == <<"h", "t", "t", "p", ":", "/", "/">>

\* the path _test_cas_connection appends to the host
TasksPath == <<"a", "p", "i", "/", "t", "a", "s", "k", "s">>

\* str.startswith and str.endswith
StartsWith(str, prefix) ==
    Len(str) >= Len(prefix) /\ SubSeq(str, 1, Len(prefix)) = prefix

EndsWith(str, suffix) ==
    /\ Len(str) >= Len(suffix)
    /\ SubSeq(str, Len(str) - Len(suffix) + 1, Len(str)) = suffix

\* the hosts a config may carry: empty, bare, with a trailing slash, with a
\* scheme, both, https, a name that begins with "http", a lone slash
ConfigHosts ==
    { <<>>,
      <<"c">>,
      <<"c", "/">>,
      HttpScheme \o <<"c">>,
      HttpScheme \o <<"c", "/">>,
      <<"h", "t", "t", "p", "s", ":", "/", "/", "c">>,
      <<"h", "t", "t", "p", "c">>,
      <<"/">> }

ConfigApiKeys == { <<>>, <<"k">> }

\* the configs the host passes to init_plugin; the last one is the empty
\* dict (or None), for which "if config:" is false
Configs ==
    [empty : {FALSE}, enabled : BOOLEAN, server : {"emby"}, notify : {FALSE},
     host : ConfigHosts, api_key : ConfigApiKeys]
    \cup {[empty |-> TRUE, enabled |-> FALSE, server |-> "emby",
           notify |-> FALSE, host |-> <<>>, api_key |-> <<>>]}

\* the host as _validate_config leaves it: a non-empty host gets the scheme
\* if it does not start with "http" and the slash if it does not end with one
NormalizeHost(h) ==
    IF h = <<>> THEN h
    ELSE LET schemed == IF StartsWith(h, HttpPrefix) THEN h
                        ELSE HttpScheme \o h
         IN IF EndsWith(schemed, <<"/">>) THEN schemed
            ELSE schemed \o <<"/">>

\* a plausible slip: the result of the validation is ignored
ValidateConfig_Ignored(on, h, key) == TRUE

\* the value _validate_config returns for the host it normalised
ValidateConfig(on, h, key) == ~(on /\ (h = <<>> \/ key = <<>>))

\* the URL of the GET of _test_cas_connection
TestUrl(h) == h \o TasksPath

\* init_plugin(config), the whole call: the attributes are taken from a
\* non-empty config, the host is normalised, an invalid config disables the
\* plugin and returns, and an enabled plugin tests the connection (the test
\* only logs what the GET returned)
InitPlugin(cfg) ==
    /\ Len(init_log) < MaxInitCalls
    /\ IF cfg.empty
       THEN /\ init_log' = Append(init_log,
                                  [config |-> cfg, enabled |-> enabled,
                                   host |-> host, api_key |-> api_key,
                                   request |-> <<>>])
            /\ UNCHANGED <<enabled, server, notify, host, api_key>>
       ELSE LET h == NormalizeHost(cfg.host)
                valid == ValidateConfig(cfg.enabled, h, cfg.api_key)
                on == cfg.enabled /\ valid
            IN /\ enabled' = on
               /\ server' = cfg.server
               /\ notify' = cfg.notify
               /\ host' = h
               /\ api_key' = cfg.api_key
               /\ init_log' = Append(init_log,
                                     [config |-> cfg, enabled |-> on,
                                      host |-> h, api_key |-> cfg.api_key,
                                      request |-> IF on THEN TestUrl(h)
                                                  ELSE <<>>])
    /\ UNCHANGED <<event_cache, handlers, calls, threads>>
    /\ UNCHANGED rvars
    /\ UNCHANGED <<page, total_pages, page_start, attempt, http_log,
                   fetch_state, status_line, notifications, passes>>
    /\ UNCHANGED <<task_list, remote, history, refresh, sub_log, rank,
                   schedulers, saved_config>>

\* the event the host delivers in SpecConfig
ConfigEvents ==
    {MakeEvent([item_id |-> "m1", media_type |-> "movie", item_name |-> "Foo",
                series_name |-> "", json_object |-> "dict"],
               "library.new", "emby")}

\* the plugin as constructed (disabled, no host, no key); the host calls
\* init_plugin and delivers events in any order
InitConfig ==
    /\ InitPass
    /\ notify = FALSE
    /\ enabled = FALSE
    /\ server = "emby"
    /\ event_cache = <<>>
    /\ handlers = [h \in Handlers |-> [pc |-> "idle", call |-> 0]]
    /\ calls = <<>>
    /\ threads = <<>>

NextConfig ==
    \/ \E cfg \in Configs : InitPlugin(cfg)
    \/ \E ev \in ConfigEvents :
          Len(calls) < MaxConfigCalls /\ HandleBegin("h1", ev)
    \/ HandleAppend("h1")

SpecConfig == InitConfig /\ [][NextConfig]_vars

----------------------------------------------------------------------------
(* The ranking plugin: __refresh_maoyan and set_sub *)

\* the number of ranked titles set_sub handles in SpecRank
MaxRanked == 2

\* the number of refreshes in SpecRank
MaxRefreshes == 2

\* the year of datetime.now() in SpecRank, and the day of that year
CurrentYear == 2026

CurrentDay == 100

\* str(mtype) for the two lists of a refresh
MediaTypes == {"MediaType.MOVIE", "MediaType.TV"}

\* the titles of the ranking; one of them contains the separator of the flag
RankTitles == {"A", "A_2026"}

\* addr.get('releaseInfo') as the number of days its digits spell; -1 stands
\* for a releaseInfo without digits or without a value, for which int() or
\* re.findall raises
ReleaseInfos == {-1, 200}

\* the entries of a ranking list
Addrs == [title : RankTitles, releaseInfo : ReleaseInfos]

\* (current_time - timedelta(days=subtract)).year as text, "None" when the
\* computation raised
YearOf(releaseInfo) ==
    IF releaseInfo < 0 THEN "None"
    ELSE IF releaseInfo < CurrentDay THEN ToString(CurrentYear)
    ELSE ToString(CurrentYear - 1)

\* f"maoyanrank: {mtype}_{title}_{year}"
UniqueFlag(mtype, title, year) ==
    "maoyanrank: " \o mtype \o "_" \o title \o "_" \o year

\* [h.get("unique") for h in history]
HistoryFlags(hist) == {hist[i].unique : i \in 1..Len(hist)}

\* what the host application answers for one title: recognize_media returns
\* a MediaInfo, returns None or raises; get_no_exists_info and exists return
\* a flag; subscribechain.add returns or raises
Answers ==
    [recognised : {"ok", "none", "raise"}, in_library : BOOLEAN,
     subscribed : BOOLEAN, add : {"ok", "raise"}]

\* a plausible slip: the flag is looked up in the stored history, not in the
\* list this refresh is appending to
AlreadyProcessed_Stored(flag, hist) == flag \in HistoryFlags(history)

\* "if unique_flag in [h.get("unique") for h in history]"
AlreadyProcessed(flag, hist) == flag \in HistoryFlags(hist)

\* the branch of set_sub's loop body taken for a title, in the order of the
\* code: processed, unrecognised, in the library, subscribed, and then the
\* call of subscribechain.add, which raises or returns
SetSubOutcome(flag, hist, ans) ==
    IF AlreadyProcessed(flag, hist) THEN "processed"
    ELSE IF ans.recognised = "raise" THEN "raised"
    ELSE IF ans.recognised = "none" THEN "unrecognised"
    ELSE IF ans.in_library THEN "in_library"
    ELSE IF ans.subscribed THEN "subscribed"
    ELSE IF ans.add = "raise" THEN "add_raised"
    ELSE "added"

\* the dict set_sub appends to the history (its fields of the MediaInfo and
\* the time are left out)
HistoryEntry(flag, addr) ==
    [unique |-> flag, title |-> addr.title, releaseInfo |-> addr.releaseInfo]

\* the list pc of a refresh and the mtype set_sub is called with
ListType(pc) == IF pc = "movies" THEN "MediaType.MOVIE" ELSE "MediaType.TV"

\* __refresh_maoyan begins: history = self.get_data('history') or []
RefreshStart ==
    /\ refresh.pc = "idle"
    /\ refresh.done < MaxRefreshes
    /\ refresh' = [refresh EXCEPT !.pc = "movies", !.history = history]
    /\ UNCHANGED <<task_list, remote, host, api_key, init_log, history,
                   sub_log, rank, schedulers, saved_config>>
    /\ UNCHANGED hvars
    /\ UNCHANGED rvars
    /\ UNCHANGED pvars

\* one iteration of set_sub's for loop, for the entry addr of the list
SetSub(addr, ans) ==
    /\ refresh.pc \in {"movies", "tv"}
    /\ Len(sub_log) < MaxRanked
    /\ LET mtype == ListType(refresh.pc)
           flag == UniqueFlag(mtype, addr.title, YearOf(addr.releaseInfo))
           outcome == SetSubOutcome(flag, refresh.history, ans)
       IN /\ sub_log' = Append(sub_log, [flag |-> flag, outcome |-> outcome,
                                         refresh |-> refresh.done + 1])
          /\ refresh' = IF outcome = "added"
                        THEN [refresh EXCEPT
                                !.history = Append(@, HistoryEntry(flag, addr))]
                        ELSE refresh
    /\ UNCHANGED <<task_list, remote, host, api_key, init_log, history,
                   rank, schedulers, saved_config>>
    /\ UNCHANGED hvars
    /\ UNCHANGED rvars
    /\ UNCHANGED pvars

\* set_sub(movie_list, ...) returns and set_sub(tv_list, ...) begins
MoviesEnd ==
    /\ refresh.pc = "movies"
    /\ refresh' = [refresh EXCEPT !.pc = "tv"]
    /\ UNCHANGED <<task_list, remote, host, api_key, init_log, history,
                   sub_log, rank, schedulers, saved_config>>
    /\ UNCHANGED hvars
    /\ UNCHANGED rvars
    /\ UNCHANGED pvars

\* self.save_data('history', history), the end of the refresh
RefreshEnd ==
    /\ refresh.pc = "tv"
    /\ history' = refresh.history
    /\ refresh' = [pc |-> "idle", history |-> <<>>, done |-> refresh.done + 1]
    /\ UNCHANGED <<task_list, remote, host, api_key, init_log,
                   sub_log, rank, schedulers, saved_config>>
    /\ UNCHANGED hvars
    /\ UNCHANGED rvars
    /\ UNCHANGED pvars

\* the histories SpecRank starts from: empty, or the entry of a film an
\* earlier refresh subscribed
StoredHistories ==
    {<<>>} \cup
    {<<HistoryEntry(UniqueFlag("MediaType.MOVIE", a.title,
                               YearOf(a.releaseInfo)), a)>> :
        a \in [title : {"A"}, releaseInfo : ReleaseInfos]}

\* refreshes run one after the other, each over lists of any entries
InitRank ==
    /\ task_info = EmptyTaskInfo
    /\ fetched = 0
    /\ idx = 1
    /\ deleted_count = 0
    /\ skipped_count = 0
    /\ processing_tasks = <<>>
    /\ delete_log = <<>>
    /\ page = 1
    /\ total_pages = 1
    /\ page_start = 0
    /\ attempt = 0
    /\ http_log = <<>>
    /\ fetch_state = "pending"
    /\ status_line = <<>>
    /\ notifications = <<>>
    /\ passes = <<>>
    /\ task_list = <<>>
    /\ remote = {}
    /\ rpc = "fetch"
    /\ notify = FALSE
    /\ enabled = FALSE
    /\ server = "emby"
    /\ event_cache = <<>>
    /\ handlers = [h \in Handlers |-> [pc |-> "idle", call |-> 0]]
    /\ calls = <<>>
    /\ threads = <<>>
    /\ InitConfigVars
    /\ InitSchedulerVars
    /\ history \in StoredHistories
    /\ refresh = [pc |-> "idle", history |-> <<>>, done |-> 0]
    /\ sub_log = <<>>

NextRank ==
    \/ RefreshStart
    \/ \E addr \in Addrs, ans \in Answers : SetSub(addr, ans)
    \/ MoviesEnd
    \/ RefreshEnd

SpecRank == InitRank /\ [][NextRank]_vars

----------------------------------------------------------------------------
(* The ranking plugin: init_plugin, stop_service and the scheduler *)

\* the number of calls of init_plugin and stop_service in SpecScheduler
MaxRankCalls == 3

\* config.get("cron"): none, a crontab CronTrigger.from_crontab accepts, and
\* one for which it raises
Crons == {"", "ok", "bad"}

\* the configs the host passes to the ranking plugin's init_plugin; the last
\* one is the empty dict (or None), for which "if config:" is false
RankConfigs ==
    [empty : {FALSE}, enabled : BOOLEAN, onlyonce : BOOLEAN, clear : BOOLEAN,
     cron : Crons]
    \cup {[empty |-> TRUE, enabled |-> FALSE, onlyonce |-> FALSE,
           clear |-> FALSE, cron |-> ""]}

\* the dict __update_config hands to update_config (the fields of the
\* ranking lists are left out)
UpdateConfig(attrs) ==
    [empty |-> FALSE, enabled |-> attrs.enabled, onlyonce |-> attrs.onlyonce,
     clear |-> attrs.clear, cron |-> attrs.cron]

\* a plausible slip: stop_service drops the reference and leaves the
\* scheduler as it is
ShutdownScheduler_DropOnly(scheds, id) == scheds

\* stop_service for the scheduler self._scheduler refers to: its jobs are
\* removed and a running scheduler is shut down (remove_all_jobs and
\* shutdown of a running scheduler return normally)
ShutdownScheduler(scheds, id) ==
    IF id = 0 THEN scheds
    ELSE [scheds EXCEPT ![id] = [state |-> IF @.state = "running"
                                           THEN "shutdown" ELSE @.state,
                                 jobs |-> <<>>]]

\* the jobs init_plugin adds to a new scheduler: the periodic job, unless
\* the crontab is rejected, and the one-shot job if onlyonce is set
JobsFor(cron, onlyonce) ==
    (IF cron = "bad" THEN <<>> ELSE <<"cron">>)
    \o (IF onlyonce THEN <<"date">> ELSE <<>>)

\* the scheduler init_plugin creates: started if it has jobs
NewScheduler(cron, onlyonce) ==
    LET jobs == JobsFor(cron, onlyonce)
    IN [state |-> IF jobs # <<>> THEN "running" ELSE "created", jobs |-> jobs]

\* the ranking plugin's init_plugin(config), the whole call: the attributes
\* are taken from a non-empty config, stop_service runs, a set clear flag
\* deletes the history and is reset and saved, and if the plugin is enabled
\* or onlyonce is set a scheduler is created, given its jobs and started,
\* with the onlyonce flag reset and saved
RankInitPlugin(cfg) ==
    /\ rank.calls < MaxRankCalls
    /\ LET attrs == IF cfg.empty
                    THEN [enabled |-> rank.enabled, onlyonce |-> rank.onlyonce,
                          clear |-> rank.clear, cron |-> rank.cron]
                    ELSE [enabled |-> cfg.enabled, onlyonce |-> cfg.onlyonce,
                          clear |-> cfg.clear, cron |-> cfg.cron]
           stopped == ShutdownScheduler(schedulers, rank.scheduler)
           cleared == [attrs EXCEPT !.clear = FALSE]
           saved1 == IF attrs.clear THEN UpdateConfig(cleared)
                     ELSE saved_config
           create == attrs.enabled \/ attrs.onlyonce
           final == [cleared EXCEPT !.onlyonce = FALSE]
           saved2 == IF create /\ attrs.onlyonce THEN UpdateConfig(final)
                     ELSE saved1
       IN /\ history' = IF attrs.clear THEN <<>> ELSE history
          /\ schedulers' = IF create
                           THEN Append(stopped,
                                       NewScheduler(attrs.cron, attrs.onlyonce))
                           ELSE stopped
          /\ saved_config' = saved2
          /\ rank' = [enabled |-> attrs.enabled, onlyonce |-> final.onlyonce,
                      clear |-> final.clear, cron |-> attrs.cron,
                      scheduler |-> IF create THEN Len(stopped) + 1 ELSE 0,
                      calls |-> rank.calls + 1,
                      last |-> [call |-> "init", config |-> cfg,
                                attrs |-> attrs,
                                saved |-> cfg = saved_config]]
    /\ UNCHANGED <<task_list, remote, host, api_key, init_log, refresh,
                   sub_log>>
    /\ UNCHANGED hvars
    /\ UNCHANGED rvars
    /\ UNCHANGED pvars

\* stop_service called by the host
RankStopService ==
    /\ rank.calls < MaxRankCalls
    /\ schedulers' = ShutdownScheduler(schedulers, rank.scheduler)
    /\ rank' = [rank EXCEPT !.scheduler = 0, !.calls = @ + 1,
                            !.last = [call |-> "stop"]]
    /\ UNCHANGED <<task_list, remote, host, api_key, init_log, history,
                   refresh, sub_log, saved_config>>
    /\ UNCHANGED hvars
    /\ UNCHANGED rvars
    /\ UNCHANGED pvars

\* the one-shot job of a running scheduler fires and is gone
DateJobFires(id) ==
    /\ schedulers[id].state = "running"
    /\ \E k \in 1..Len(schedulers[id].jobs) : schedulers[id].jobs[k] = "date"
    /\ schedulers' = [schedulers EXCEPT ![id].jobs =
                         SelectSeq(@, LAMBDA j : j # "date")]
    /\ UNCHANGED <<task_list, remote, host, api_key, init_log, history,
                   refresh, sub_log, rank, saved_config>>
    /\ UNCHANGED hvars
    /\ UNCHANGED rvars
    /\ UNCHANGED pvars

\* the host calls init_plugin, with any config (the saved one among them),
\* and stop_service in any order; the history holds an entry or none
InitScheduler ==
    /\ task_info = EmptyTaskInfo
    /\ fetched = 0
    /\ idx = 1
    /\ deleted_count = 0
    /\ skipped_count = 0
    /\ processing_tasks = <<>>
    /\ delete_log = <<>>
    /\ page = 1
    /\ total_pages = 1
    /\ page_start = 0
    /\ attempt = 0
    /\ http_log = <<>>
    /\ fetch_state = "pending"
    /\ status_line = <<>>
    /\ notifications = <<>>
    /\ passes = <<>>
    /\ task_list = <<>>
    /\ remote = {}
    /\ rpc = "fetch"
    /\ notify = FALSE
    /\ enabled = FALSE
    /\ server = "emby"
    /\ event_cache = <<>>
    /\ handlers = [h \in Handlers |-> [pc |-> "idle", call |-> 0]]
    /\ calls = <<>>
    /\ threads = <<>>
    /\ InitConfigVars
    /\ InitSchedulerVars
    /\ history \in StoredHistories
    /\ refresh = [pc |-> "idle", history |-> <<>>, done |-> 0]
    /\ sub_log = <<>>

NextScheduler ==
    \/ \E cfg \in RankConfigs : RankInitPlugin(cfg)
    \/ RankStopService
    \/ \E id \in 1..Len(schedulers) : DateJobFires(id)

SpecScheduler == InitScheduler /\ [][NextScheduler]_vars

----------------------------------------------------------------------------
(* Properties of the reconciliation (checked under SpecReconcile) *)

\* delete attempts of the pass that returned true / false
NumOkDeletes == Cardinality({i \in 1..Len(delete_log) : delete_log[i].ok})
NumFailedDeletes == Cardinality({i \in 1..Len(delete_log) : ~delete_log[i].ok})

\* the ids the for loop has gone through
DoneIds == SubSeq(task_info.ids, 1, idx - 1)

\* C1 as stated: once reconcile has returned, deleted_count + skipped_count
\* equals len(ids), whatever the delete collaborator answered.
C1_CountsCoverAllIds ==
    rpc = "done" => deleted_count + skipped_count = Len(task_info.ids)

\* C1 amended: once reconcile has returned, deleted_count + skipped_count is at
\* most len(ids), and equals len(ids) when every delete attempt returned true.
C1_CountsCoverAllIdsWhenDeletesSucceed ==
    rpc = "done" =>
        /\ deleted_count + skipped_count <= Len(task_info.ids)
        /\ (\A i \in 1..Len(delete_log) : delete_log[i].ok)
              => deleted_count + skipped_count = Len(task_info.ids)

\* a returned pass that deleted and skipped tasks and had no failed delete
C1_Witness ==
    /\ rpc = "done"
    /\ deleted_count >= 1
    /\ skipped_count >= 1
    /\ \A i \in 1..Len(delete_log) : delete_log[i].ok

\* C2: a delete attempt that returns false increments neither counter:
\* deleted_count counts exactly the attempts that returned true, the two
\* counters and the failed attempts add up to the ids gone through (len(ids)
\* on return), and the counters add up to len(ids) exactly when no attempt
\* failed.
C2_FailedDeleteCountedNowhere ==
    rpc \in {"loop", "done"} =>
        /\ deleted_count = NumOkDeletes
        /\ deleted_count + skipped_count + NumFailedDeletes = idx - 1
        /\ rpc = "done" =>
              /\ deleted_count + skipped_count + NumFailedDeletes = Len(task_info.ids)
              /\ (deleted_count + skipped_count = Len(task_info.ids))
                    <=> (NumFailedDeletes = 0)

\* a returned pass with a failed delete beside a successful one and a skip
C2_Witness ==
    /\ rpc = "done"
    /\ NumFailedDeletes >= 1
    /\ deleted_count >= 1
    /\ skipped_count >= 1

\* C3 as stated: within one pass the delete collaborator is called at most
\* once for any task id, also when the remote lists an id more than once.
C3_AtMostOneDeletePerId ==
    \A i, j \in 1..Len(delete_log) :
        delete_log[i].id = delete_log[j].id => i = j

\* C4: the delete collaborator is called for exactly the ids gone through
\* whose status is "completed", once per occurrence in ids; every other
\* occurrence is counted as skipped and never passed to delete.
C4_DeleteIffCompleted ==
    rpc \in {"loop", "done"} =>
        LET Completed(task_id) == StatusOf(task_info, task_id) = "completed"
            NotCompleted(task_id) == StatusOf(task_info, task_id) # "completed"
        IN /\ [i \in 1..Len(delete_log) |-> delete_log[i].id]
                 = SelectSeq(DoneIds, Completed)
           /\ skipped_count = Len(SelectSeq(DoneIds, NotCompleted))

\* a returned pass that met a completed task, an unrecognised status and the
\* lower-cased shareLinkError status
C4_Witness ==
    /\ rpc = "done"
    /\ Len(delete_log) = 1
    /\ skipped_count = 2
    /\ \E a, b \in Range(task_info.ids) :
          /\ StatusOf(task_info, a) = "completed"
          /\ StatusOf(task_info, b) \in {"paused", "sharelinkerror"}

\* C5: processing_tasks is the subsequence, in fetch order, of the ids gone
\* through whose status is "processing" and whose videoType is "tv", each with
\* its name and episode numbers.
C5_ProcessingTasksExact ==
    rpc \in {"loop", "done"} =>
        LET Wanted(task_id) ==
                /\ task_info.status[task_id] = "processing"
                /\ task_info.details[task_id].videoType = "tv"
            want == SelectSeq(DoneIds, Wanted)
        IN processing_tasks =
             [i \in 1..Len(want) |->
                [id |-> want[i],
                 name |-> task_info.details[want[i]].resourceName,
                 current |-> task_info.details[want[i]].currentEpisodes,
                 total |-> task_info.details[want[i]].totalEpisodes]]

\* a returned pass that recorded two distinct tv tasks in progress, in the
\* order fetched
C5_Witness ==
    /\ rpc = "done"
    /\ Len(processing_tasks) = 2
    /\ processing_tasks[1].id = "t2"
    /\ processing_tasks[2].id = "t1"
    /\ task_info.ids = <<"t2", "t1">>

----------------------------------------------------------------------------
(* Properties of the webhook handler (checked under Spec and SpecCache) *)

\* worker threads started by call c
PassesStartedBy(c) == {t \in 1..Len(threads) : threads[t].call = c}

\* the event passes every filter that follows the de-duplication
Admissible(ev) ==
    /\ ev.channel = server
    /\ ev.event = "library.new"
    /\ SearchTitle(ev) # ""

\* C6: when the host submits an event and, after that call has returned,
\* submits the same event again as its next call, the second call starts no
\* pass and the two calls together start at most one; they start exactly one
\* when the plugin is enabled, the event passes the filters and its key was
\* not in the deque at the first call.
C6_TwiceInSuccessionOnePass ==
    \A c \in 1..Len(calls) - 1 :
        (/\ c \in calls[c + 1].before
         /\ calls[c].ev = calls[c + 1].ev)
        => /\ PassesStartedBy(c + 1) = {}
           /\ calls[c + 1].outcome \in {"duplicate", "disabled"}
           /\ Cardinality(PassesStartedBy(c)) <= 1
           /\ (enabled /\ Admissible(calls[c].ev) /\ calls[c].outcome # "duplicate")
                 => Cardinality(PassesStartedBy(c) \cup PassesStartedBy(c + 1)) = 1

\* the same admissible event was submitted twice in succession: one pass
C6_Witness ==
    /\ Len(calls) >= 2
    /\ calls[1].ev = calls[2].ev
    /\ 1 \in calls[2].before
    /\ calls[1].outcome = "started"
    /\ calls[2].outcome = "duplicate"
    /\ Len(threads) = 1

\* C7 as stated: of the calls that carry one event key, concurrent ones
\* included, at most one is admitted past the de-duplication gate, so at most
\* one pass is started for the key.
C7_OnePassPerKey ==
    \A t, u \in 1..Len(threads) :
        calls[threads[t].call].key = calls[threads[u].call].key => t = u

\* C8: the deque never holds more than EventCacheMaxLen keys; it holds the
\* keys of the last EventCacheMaxLen insertions in insertion order (a key
\* leaves only as the oldest one, when a key is stored into a full deque); and
\* a call is rejected as a duplicate exactly when its key is among the last
\* EventCacheMaxLen keys stored before it, so a key followed by
\* EventCacheMaxLen further insertions is treated as new.
C8_CacheHoldsLastKeys ==
    LET ins == Inserted
        n == Len(ins)
        first == IF n > EventCacheMaxLen THEN n - EventCacheMaxLen + 1 ELSE 1
        last == Len(calls)
        \* the insertions that precede the latest call
        m == IF last > 0 /\ calls[last].outcome \notin {"duplicate", "running", "disabled"}
             THEN n - 1 ELSE n
        mfirst == IF m > EventCacheMaxLen THEN m - EventCacheMaxLen + 1 ELSE 1
        recent == {ins[i].key : i \in mfirst..m}
    IN /\ Len(event_cache) <= EventCacheMaxLen
       /\ event_cache = [i \in 1..(n - first + 1) |-> ins[first + i - 1].key]
       /\ last > 0 =>
             ((calls[last].outcome = "duplicate") <=> (calls[last].key \in recent))

\* the deque is full, the oldest key still held was rejected as a duplicate,
\* and the key evicted before it was then treated as new
C8_Witness ==
    /\ Len(calls) = EventCacheMaxLen + 3
    /\ Len(event_cache) = EventCacheMaxLen
    /\ calls[EventCacheMaxLen + 2].outcome = "duplicate"
    /\ calls[EventCacheMaxLen + 2].ev.item_id = "2"
    /\ calls[EventCacheMaxLen + 3].outcome = "started"
    /\ calls[EventCacheMaxLen + 3].ev.item_id = "1"
    /\ calls[1].ev.item_id = "1"
    /\ calls[1].outcome = "started"

\* C9: a call of the enabled plugin whose key is in the deque is discarded in
\* that step: it is recorded as a duplicate and changes neither the deque nor
\* the started threads nor any host thread's position nor the delete requests
\* and results of a pass.
C9_DuplicateHasNoEffect ==
    [][(/\ Len(calls') = Len(calls) + 1
        /\ enabled
        /\ calls'[Len(calls')].key \in Range(event_cache))
       => /\ calls'[Len(calls')].outcome = "duplicate"
          /\ event_cache' = event_cache
          /\ threads' = threads
          /\ handlers' = handlers
          /\ UNCHANGED rvars]_vars

\* a duplicate of a stored key that is not the newest one was discarded
C9_Witness ==
    /\ Len(calls) >= 3
    /\ calls[Len(calls)].outcome = "duplicate"
    /\ Len(event_cache) >= 2
    /\ calls[Len(calls)].key = event_cache[1]

\* C10: every pass was started by a call whose channel equals the configured
\* server and whose event name is "library.new"; a call with another channel,
\* another event name or the deletion event has started no pass and is never
\* recorded as started.
C10_OnlyMatchingEventsStartPass ==
    /\ \A t \in 1..Len(threads) :
          LET ev == calls[threads[t].call].ev
          IN /\ ev.channel = server
             /\ ev.event \in {"library.new"}
             /\ ev.event # "deep.delete"
    /\ \A c \in 1..Len(calls) :
          (\/ calls[c].ev.channel # server
           \/ calls[c].ev.event # "library.new")
          => /\ PassesStartedBy(c) = {}
             /\ calls[c].outcome # "started"

\* a pass was started for a matching event; an event of another channel and
\* a deletion event of the right channel were stored and started none
C10_Witness ==
    /\ Len(threads) = 1
    /\ \E c, d, e \in 1..Len(calls) :
          /\ calls[c].outcome = "started"
          /\ calls[d].outcome = "channel"
          /\ calls[e].outcome = "event"
          /\ calls[e].ev.event = "deep.delete"
          /\ calls[e].ev.channel = server

----------------------------------------------------------------------------
(* Properties of a whole pass (checked under SpecPass) *)

\* the number of posted messages of one kind
NumPosted(kind) ==
    Cardinality({i \in 1..Len(notifications) : notifications[i].kind = kind})

\* the pass went through reconciliation and _maybe_send_notifications
PassNotified == rpc = "end" /\ fetch_state = "ok"

\* C11: a pass posts a processing notification exactly when notify is on
\* and processing_tasks is not empty; nothing is posted for an empty list or
\* with notify off, and nothing before the notification step.
C11_ProcessingNotificationGate ==
    IF PassNotified
    THEN NumPosted("processing")
           = (IF notify /\ processing_tasks # <<>> THEN 1 ELSE 0)
    ELSE NumPosted("processing") = 0

\* a pass with notify on and a series in progress has posted its message
C11_Witness ==
    /\ PassNotified
    /\ notify
    /\ Len(processing_tasks) = 2
    /\ deleted_count = 0
    /\ NumPosted("processing") = 1

----------------------------------------------------------------------------
(* Properties of the processing notification (checked under SpecNotify) *)

\* the task lines of all posted processing notifications
PostedTaskLines ==
    UNION {{notifications[i].text[j] : j \in 1..Len(notifications[i].text) - 1} :
             i \in {k \in 1..Len(notifications) :
                      notifications[k].kind = "processing"}}

\* C13: for every task line, with remaining = total - current over all
\* integers, the marker is "complete" exactly when remaining = 0, "urgent"
\* exactly when 1 <= remaining <= 5, "soon" exactly when 6 <= remaining <= 10
\* and "default" exactly when remaining > 10.
C13_MarkerThresholds ==
    \A ln \in PostedTaskLines :
        LET remaining == ln.total - ln.current
        IN /\ ln.marker = "complete" <=> remaining = 0
           /\ ln.marker = "urgent" <=> (1 <= remaining /\ remaining <= 5)
           /\ ln.marker = "soon" <=> (6 <= remaining /\ remaining <= 10)
           /\ ln.marker = "default" <=> remaining > 10

\* C14: the text of a processing notification for n >= 1 tasks is n task
\* lines in the order of the tasks, each with the task's name, current, total
\* and remaining = total - current without clamping, then one time line.
C14_ProcessingTextLines ==
    \A i \in 1..Len(notifications) :
        notifications[i].kind = "processing" =>
            LET text == notifications[i].text
                n == Len(processing_tasks)
            IN /\ n >= 1
               /\ Len(text) = n + 1
               /\ text[n + 1].type = "time"
               /\ \A j \in 1..n :
                     /\ text[j].type = "task"
                     /\ text[j].name = processing_tasks[j].name
                     /\ text[j].current = processing_tasks[j].current
                     /\ text[j].total = processing_tasks[j].total
                     /\ text[j].remaining
                          = processing_tasks[j].total - processing_tasks[j].current

\* a message for two different tasks, the second with more episodes seen
\* than the total
C14_Witness ==
    /\ Len(notifications) = 1
    /\ notifications[1].kind = "processing"
    /\ Len(notifications[1].text) = 3
    /\ notifications[1].text[1].remaining = 13
    /\ notifications[1].text[2].remaining = -3
    /\ notifications[1].text[2].name = "Show2"

----------------------------------------------------------------------------
(* Properties of the logged status distribution (checked under SpecReconcile) *)

\* the position of a label in the order of TASK_STATUS_MAP
LabelIndex(label) ==
    CHOOSE i \in 1..Len(StatusKeys) : TaskStatusMap[StatusKeys[i]] = label

\* C15: the formatted status distribution has one "<label>: <count>" pair
\* for each status whose count is > 0 and none for a count of 0, in the order
\* completed, processing, failed, pending, shareLinkError, unknown, whatever
\* the order in which the tasks were fetched.
C15_StatusCountsOrder ==
    (rpc \in {"loop", "done"} /\ task_info.ids # <<>>) =>
        /\ \A i \in 1..Len(StatusKeys) :
              LET key == StatusKeys[i]
                  pairs == {j \in 1..Len(status_line) :
                              status_line[j][1] = TaskStatusMap[key]}
              IN IF task_info.counts[key] > 0
                 THEN /\ Cardinality(pairs) = 1
                      /\ \A j \in pairs :
                            status_line[j][2] = task_info.counts[key]
                 ELSE pairs = {}
        /\ \A j \in 1..Len(status_line) :
              \E i \in 1..Len(StatusKeys) :
                  status_line[j][1] = TaskStatusMap[StatusKeys[i]]
        /\ \A j, k \in 1..Len(status_line) :
              j < k => LabelIndex(status_line[j][1]) < LabelIndex(status_line[k][1])

\* a task of unknown status and a completed task were fetched in this
\* order; the line lists them the other way round
C15_Witness ==
    /\ rpc = "loop"
    /\ Len(task_info.ids) = 2
    /\ StatusOf(task_info, task_info.ids[1]) = "paused"
    /\ StatusOf(task_info, task_info.ids[2]) = "completed"
    /\ status_line = <<<<"yi wan jie", 1>>, <<"wei zhi", 1>>>>

----------------------------------------------------------------------------
(* Properties of the page requests (checked under SpecPass) *)

\* outcomes of an attempt that are a response the fetch rejects
RejectedAnswers == {"http500", "http204", "malformed"}

\* C16: a request makes at most MaxRetries = 3 attempts; a further attempt
\* follows only a transport failure, after a sleep; the first response, of
\* any status, ends the request; the request fails only after three
\* transport failures in a row, with no sleep after the last; a response
\* that is not 200 or not the expected JSON fails the fetch at once, without
\* another attempt.
C16_AtMostThreeAttempts ==
    /\ \A i \in 1..Len(http_log) :
          LET e == http_log[i]
          IN IF e.kind = "GET"
             THEN /\ e.attempt \in 1..3
                  /\ e.attempt > 1 =>
                        /\ i >= 3
                        /\ http_log[i - 1].kind = "sleep"
                        /\ http_log[i - 2].kind = "GET"
                        /\ http_log[i - 2].out = "error"
                        /\ http_log[i - 2].page = e.page
                        /\ http_log[i - 2].attempt = e.attempt - 1
                  /\ (e.attempt = 1 /\ i > 1) =>
                        /\ http_log[i - 1].kind = "GET"
                        /\ http_log[i - 1].out = "page"
                  /\ (e.out = "error" /\ e.attempt < 3) =>
                        /\ i < Len(http_log)
                        /\ http_log[i + 1].kind = "sleep"
                  /\ (e.out = "error" /\ e.attempt = 3) =>
                        /\ i = Len(http_log)
                        /\ fetch_state = "failed"
                  /\ e.out \in RejectedAnswers =>
                        /\ i = Len(http_log)
                        /\ fetch_state = "failed"
             ELSE /\ i > 1
                  /\ http_log[i - 1].kind = "GET"
                  /\ http_log[i - 1].out = "error"
                  /\ http_log[i - 1].attempt < 3
    /\ fetch_state = "failed" =>
          /\ http_log # <<>>
          /\ LET e == http_log[Len(http_log)]
             IN /\ e.kind = "GET"
                /\ \/ e.out \in RejectedAnswers
                   \/ e.out = "error" /\ e.attempt = 3

\* page 1 arrived at the second attempt, page 2 failed three times
C16_Witness ==
    /\ fetch_state = "failed"
    /\ Len(http_log) = 8
    /\ http_log[1].out = "error"
    /\ http_log[2].kind = "sleep"
    /\ http_log[3].out = "page"
    /\ http_log[4].page = 2
    /\ http_log[8].out = "error"
    /\ http_log[8].attempt = 3

\* C17: when the fetch fails on any page, also after earlier pages brought
\* completed tasks, or when it yields no id, the pass is over and has done
\* nothing: no delete was attempted and no notification posted.
C17_FailedFetchIsNoOp ==
    (fetch_state = "failed" \/ (fetch_state = "ok" /\ task_info.ids = <<>>)) =>
        /\ rpc \in {"done", "end"}
        /\ delete_log = <<>>
        /\ deleted_count = 0
        /\ skipped_count = 0
        /\ notifications = <<>>

\* page 1 brought a completed task, then page 2 failed
C17_Witness ==
    /\ fetch_state = "failed"
    /\ notify
    /\ page = 2
    /\ http_log[Len(http_log)].out = "http500"
    /\ \E i \in 1..Len(task_info.ids) :
          StatusOf(task_info, task_info.ids[i]) = "completed"

----------------------------------------------------------------------------
(* Properties of the delete collaborator (checked under SpecDelete) *)

\* C18: _delete_cloud189_task returns true only for an id that is present
\* and a response with status 200, and false for a missing id, no response
\* after the retries, any other status and an exception; deleted_count
\* counts only the calls that returned true.
C18_DeleteTrueOnlyOn200 ==
    /\ \A i \in 1..Len(delete_log) :
          LET e == delete_log[i]
          IN /\ e.ok => (e.resp = "200" /\ e.id # "")
             /\ (e.id = "" \/ e.resp \in {"204", "500", "none", "exception"})
                   => ~e.ok
             /\ (e.id # "" /\ e.resp = "200") => e.ok
    /\ deleted_count
         = Cardinality({i \in 1..Len(delete_log) :
                          delete_log[i].resp = "200" /\ delete_log[i].id # ""})

\* a delete answered with 200 was counted, one that raised was not
C18_Witness ==
    /\ Len(delete_log) = 2
    /\ delete_log[1].resp = "200"
    /\ delete_log[1].id = "t1"
    /\ delete_log[2].resp = "exception"
    /\ delete_log[2].id = "t2"
    /\ deleted_count = 1

----------------------------------------------------------------------------
(* Properties of the paging (checked under SpecPass) *)

\* C19: the pages are requested one after the other, 1, 2, 3, ..., none
\* skipped and none requested again: a request for a new page is the first
\* of the pass and asks for page 1, or it follows a page that arrived, was
\* not empty and whose totalPages (1 when it carried no pagination) is at
\* least the page asked for, and asks for the next page. So nothing is
\* requested after the first empty page, after the first failed page, or
\* beyond the totalPages of the most recent response.
C19_PagesInSequence ==
    [][(/\ Len(http_log') > Len(http_log)
        /\ http_log'[Len(http_log) + 1].kind = "GET")
       => LET e == http_log'[Len(http_log) + 1]
              prev == http_log[Len(http_log)]
          IN IF e.attempt > 1
             THEN /\ prev.kind = "sleep"
                  /\ prev.page = e.page
             ELSE IF http_log = <<>>
             THEN e.page = 1
             ELSE /\ prev.kind = "GET"
                  /\ prev.out = "page"
                  /\ e.page = prev.page + 1
                  /\ e.page <= (IF prev.has_pagination
                                THEN prev.totalPages ELSE 1)
                  /\ fetched > page_start
                  /\ fetch_state = "pending"]_vars

\* page 1 announced two pages and brought a task, page 2 came back empty
\* and ended the fetch
C19_Witness ==
    /\ fetch_state = "ok"
    /\ Len(http_log) = 2
    /\ http_log[1].page = 1
    /\ http_log[1].totalPages = 2
    /\ http_log[2].page = 2
    /\ http_log[2].out = "page"
    /\ fetched = page_start
    /\ task_info.ids # <<>>

----------------------------------------------------------------------------
(* Properties of the exception boundaries (checked under SpecFaults) *)

\* C20: an exception raised at any step of a pass is caught by the except
\* clause of _delayed_process: it is never raised to the host, it ends that
\* pass and nothing else - every other pass, the calls of the handler and
\* the deque are left as they are, and a pass that has ended stays as it
\* ended; an exception in handle_media_added is caught likewise, the call
\* returns to the host and no pass is touched.
C20_ExceptionsAreContained ==
    [][/\ \A i \in 1..Len(passes') : passes'[i].error # "raised"
       /\ \A c \in 1..Len(calls') : calls'[c].outcome # "raised"
       /\ \A i \in 1..Len(passes) :
             /\ passes[i].pc = "end" => passes'[i] = passes[i]
             /\ passes'[i].error # passes[i].error =>
                   /\ passes'[i].pc = "end"
                   /\ Len(passes') = Len(passes)
                   /\ \A j \in 1..Len(passes) : j # i => passes'[j] = passes[j]
                   /\ UNCHANGED hvars
    /\ UNCHANGED xvars
       /\ \A c \in 1..Len(calls) :
             (calls[c].outcome = "running" /\ calls'[c].outcome = "logged") =>
                   /\ \A h \in Handlers : handlers'[h].pc = "idle"
                   /\ passes' = passes
                   /\ threads' = threads]_vars

\* a pass ended by an exception during reconciliation, another pass ran to
\* its end and notified, and a call of the handler ended by an exception
C20_Witness ==
    /\ \E i, j \in 1..Len(passes) :
          /\ passes[i].error = "logged"
          /\ passes[i].fetch = "ids"
          /\ passes[i].pc = "end"
          /\ ~passes[i].notified
          /\ passes[j].error = "none"
          /\ passes[j].pc = "end"
          /\ passes[j].deleted = 1
          /\ passes[j].notified
    /\ \E c \in 1..Len(calls) : calls[c].outcome = "logged"

----------------------------------------------------------------------------
(* Properties of the worker threads (checked under SpecFaults) *)

\* C21: a call that admits its event starts exactly one worker thread for
\* the pass, and no other call starts any; the step in which the thread is
\* started returns the call to the host and runs no step of any pass, so the
\* pass runs after the call has returned.
C21_OneWorkerFireAndForget ==
    [][/\ \A c \in 1..Len(calls') :
             Cardinality({t \in 1..Len(threads') : threads'[t].call = c})
               = (IF calls'[c].outcome = "started" THEN 1 ELSE 0)
       /\ \A c \in 1..Len(calls) :
             (calls[c].outcome = "running" /\ calls'[c].outcome = "started") =>
                 /\ Len(threads') = Len(threads) + 1
                 /\ threads'[Len(threads')].call = c
                 /\ Len(threads') \notin RunningThreads'
                 /\ passes' = passes
                 /\ \A h \in Handlers : handlers'[h].pc = "idle"
       /\ passes' # passes => UNCHANGED hvars]_vars

\* two passes are under way at different steps while the host thread is in
\* a third call
C21_Witness ==
    /\ Len(passes) = 2
    /\ passes[1].pc = "notify"
    /\ passes[2].pc = "reconcile"
    /\ Len(calls) = 3
    /\ calls[1].outcome = "started"
    /\ calls[2].outcome = "started"
    /\ calls[3].outcome = "running"

----------------------------------------------------------------------------
(* Properties of the status counts (checked under SpecCounts) *)

\* the five status keys other than "unknown"
KnownStatuses == {"completed", "processing", "failed", "pending",
                  "shareLinkError"}

\* the remote status st is the status s, in any mix of upper and lower case
IsStatus(st, s) == st = s \/ Lower(st) = s

\* the entries sent with an id whose remote status falls under the key s
SentWithStatus(s) ==
    {i \in 1..Len(task_list) :
        /\ task_list[i].id # ""
        /\ IF s = "unknown"
           THEN \A k \in KnownStatuses : ~IsStatus(task_list[i].status, k)
           ELSE IsStatus(task_list[i].status, s)}

\* the sum of the six counts
SumCounts(counts) ==
    counts["completed"] + counts["processing"] + counts["failed"]
      + counts["pending"] + counts["shareLinkError"] + counts["unknown"]

\* C22: for each of the six statuses s the count of s is the number of
\* fetched entries with an id whose remote status is s, entries of any other
\* status being counted under unknown, and the counts sum to len(ids).
C22_CountsMatchRemoteStatus ==
    /\ \A i \in 1..Len(StatusKeys) :
          task_info.counts[StatusKeys[i]]
            = Cardinality(SentWithStatus(StatusKeys[i]))
    /\ SumCounts(task_info.counts) = Len(task_info.ids)

----------------------------------------------------------------------------
(* Properties of the order of a pass (checked under SpecPass) *)

\* C23: the steps of a pass come in the order pre-delay, fetch, delete or
\* skip, notify: a page is requested only after the pre-delay, a delete is
\* requested only after the fetch has returned and no page is requested
\* afterwards, a notification is posted only after the loop over the ids has
\* ended and no delete follows it, and when both notifications are posted
\* the processing notification comes first.
C23_StepsInOrder ==
    [][/\ http_log' # http_log =>
             /\ rpc = "request"
             /\ delete_log = <<>>
             /\ notifications = <<>>
       /\ delete_log' # delete_log =>
             /\ fetch_state = "ok"
             /\ rpc = "loop"
             /\ http_log' = http_log
             /\ notifications = <<>>
       /\ notifications' # notifications =>
             /\ fetch_state = "ok"
             /\ idx > Len(task_info.ids)
             /\ rpc' = "end"
             /\ delete_log' = delete_log
             /\ http_log' = http_log
       /\ rpc = "end" => UNCHANGED <<http_log, delete_log, notifications>>
       /\ Len(notifications') = 2 =>
             /\ notifications'[1].kind = "processing"
             /\ notifications'[2].kind = "clean"]_vars

\* a pass that fetched two pages, deleted a task and posted both
\* notifications
C23_Witness ==
    /\ rpc = "end"
    /\ Len(http_log) >= 2
    /\ http_log[Len(http_log)].page = 2
    /\ \E i \in 1..Len(delete_log) : delete_log[i].ok
    /\ Len(notifications) = 2

----------------------------------------------------------------------------
(* Properties of the search title (checked under SpecTitle) *)

\* the media types of TitleMediaTypes that are tv, series, episode, season
\* or show in some mix of upper and lower case
TvLikeTypes == {"tv", "Series", "EPISODE", "season", "Show"}

\* the title the claim gives to an event
ClaimedTitle(ev) ==
    IF /\ ev.media_type \in TvLikeTypes
       /\ ev.json_object # "badstr"
       /\ ev.series_name # ""
    THEN ev.series_name
    ELSE ev.item_name

\* C24: the search title of an event that passed the channel and event
\* checks is the series name of the payload exactly when the media type is
\* one of tv, series, episode, season, show in any case and the payload
\* parses and carries a non-empty series name; otherwise it is the item
\* name; a pass is started with that title, and none when it is empty.
C24_SearchTitle ==
    \A c \in 1..Len(calls) :
        calls[c].outcome \in {"started", "notitle"} =>
            LET title == ClaimedTitle(calls[c].ev)
                started == {t \in 1..Len(threads) : threads[t].call = c}
            IN IF title = ""
               THEN calls[c].outcome = "notitle" /\ started = {}
               ELSE /\ calls[c].outcome = "started"
                    /\ Cardinality(started) = 1
                    /\ \A t \in started : threads[t].title = title

\* an episode whose payload parses started a pass for the series, and a
\* movie whose payload names a series started one for its own name
C24_Witness ==
    /\ Len(threads) = 2
    /\ calls[threads[1].call].ev.media_type = "EPISODE"
    /\ calls[threads[1].call].ev.json_object = "str"
    /\ calls[threads[1].call].ev.item_name = "Foo"
    /\ threads[1].title = "Bar"
    /\ calls[threads[2].call].ev.media_type = "movie"
    /\ calls[threads[2].call].ev.series_name = "Bar"
    /\ threads[2].title = "Foo"

----------------------------------------------------------------------------
(* Termination of the page loop (checked under SpecLive) *)

\* C25: every pass terminates, whatever the remote answers to the page
\* requests: the fetch returns or fails at some point.
C25_PassTerminates == <>(rpc \in {"done", "end"})

----------------------------------------------------------------------------
(* Properties of concurrent passes (checked under SpecShared) *)

\* the sum of deleted_count over the passes
RECURSIVE SumDeleted(_)
SumDeleted(ps) ==
    IF ps = <<>> THEN 0
    ELSE ps[Len(ps)].deleted + SumDeleted(SubSeq(ps, 1, Len(ps) - 1))

\* C26: across the passes that run concurrently no task id receives more
\* than one delete request, and every task the remote removed is counted in
\* the deleted_count of exactly one pass.
C26_OneDeletePerIdAcrossPasses ==
    /\ \A i, j \in 1..Len(delete_log) :
          i # j => delete_log[i].id # delete_log[j].id
    /\ SumDeleted(passes)
         = Cardinality({delete_log[i].id : i \in {k \in 1..Len(delete_log) :
                                                    delete_log[k].held}})

----------------------------------------------------------------------------
(* Properties of the insertion into the deque (checked under Spec) *)

\* the outcomes of a call whose event failed one of the checks
Rejections == {"channel", "event", "delete", "notitle"}

\* C27: while the plugin is enabled the key of every event that is not a
\* duplicate is stored in the deque before the channel, event and title
\* checks, so the key of a rejected event is in the deque as well and a
\* redelivery of it is a duplicate; while the plugin is disabled a call
\* leaves the deque unchanged and starts no pass.
C27_KeyStoredBeforeChecks ==
    [][/\ \A c \in 1..Len(calls) :
             (calls[c].outcome = "running" /\ calls'[c].outcome # "running") =>
                 /\ calls'[c].outcome \in Rejections \cup {"started"}
                 /\ event_cache' = Append(event_cache, calls[c].key)
       /\ Len(calls') > Len(calls) =>
             LET new == calls'[Len(calls')]
             IN /\ event_cache' = event_cache
                /\ threads' = threads
                /\ new.outcome = "disabled" <=> ~enabled
                /\ (enabled /\ new.key \in Range(event_cache)) =>
                       new.outcome = "duplicate"
       /\ ~enabled => (event_cache' = <<>> /\ threads' = <<>>)
       /\ \A c \in 1..Len(calls') :
             calls'[c].outcome \in Rejections =>
                 calls'[c].key \in Range(event_cache')]_vars

\* an event of the wrong channel was rejected, its key was stored, and its
\* redelivery was discarded as a duplicate
C27_Witness ==
    /\ enabled
    /\ Len(calls) = 2
    /\ calls[1].outcome = "channel"
    /\ calls[2].outcome = "duplicate"
    /\ calls[2].key = calls[1].key
    /\ event_cache = <<calls[1].key>>
    /\ threads = <<>>

----------------------------------------------------------------------------
(* Properties of init_plugin (checked under SpecConfig) *)

\* a host that starts with "http" and ends with "/"
IsNormalHost(h) == StartsWith(h, HttpPrefix) /\ EndsWith(h, <<"/">>)

\* what one call of init_plugin with a non-empty config must have done
InitCallOk(e) ==
    LET c == e.config
        incomplete == c.host = <<>> \/ c.api_key = <<>>
    IN /\ (c.enabled /\ incomplete) => (~e.enabled /\ e.request = <<>>)
       /\ (c.enabled /\ ~incomplete) =>
             (e.enabled /\ e.request = TestUrl(e.host))
       /\ ~c.enabled => (~e.enabled /\ e.request = <<>>)
       /\ c.host # <<>> => IsNormalHost(e.host)
       /\ c.host = <<>> => e.host = <<>>
       /\ IsNormalHost(c.host) => e.host = c.host
       /\ NormalizeHost(e.host) = e.host

\* C28: after init_plugin with a config that enables the plugin but has an
\* empty host or an empty api_key the plugin is disabled (get_state() is
\* false and an event delivered then starts no pass) and no connection test
\* is requested; with both present the plugin stays enabled and the host it
\* stores starts with "http" and ends with "/"; a host that is normalised
\* already is stored as it is.
C28_InvalidConfigDisables ==
    [][/\ \A i \in 1..Len(init_log') :
             ~init_log'[i].config.empty => InitCallOk(init_log'[i])
       /\ Len(init_log') > Len(init_log) =>
             LET e == init_log'[Len(init_log')]
             IN /\ enabled' = e.enabled
                /\ host' = e.host
                /\ api_key' = e.api_key
       /\ (Len(calls') > Len(calls) /\ ~enabled) =>
             /\ calls'[Len(calls')].outcome = "disabled"
             /\ threads' = threads
             /\ event_cache' = event_cache
       /\ enabled' => (host' # <<>> /\ api_key' # <<>> /\ IsNormalHost(host'))]_vars

\* init_plugin got a config that enables the plugin without an api_key and
\* with a bare host: the plugin is disabled, the host is stored normalised,
\* no connection test was requested; the event delivered next was dropped
C28_Witness ==
    /\ Len(init_log) = 1
    /\ init_log[1].config.enabled
    /\ init_log[1].config.host = <<"c">>
    /\ init_log[1].config.api_key = <<>>
    /\ init_log[1].request = <<>>
    /\ ~enabled
    /\ host = HttpScheme \o <<"c", "/">>
    /\ Len(calls) = 1
    /\ calls[1].outcome = "disabled"
    /\ threads = <<>>

----------------------------------------------------------------------------
(* Properties of the ranking plugin's history (checked under SpecRank) *)

\* the unique flags of a history are pairwise distinct
DistinctFlags(hist) ==
    \A i, j \in 1..Len(hist) : hist[i].unique = hist[j].unique => i = j

\* C29: starting from a history with pairwise distinct unique flags, the
\* flags of the history stay pairwise distinct over any sequence of
\* refreshes; a ranked title whose flag is in the history is not subscribed
\* again; and an entry is appended to the history exactly when the subscribe
\* call for the title was made and did not raise, never for a title that was
\* unrecognised, in the library or subscribed already.
C29_HistoryFlagsStayDistinct ==
    [][/\ DistinctFlags(history')
       /\ DistinctFlags(refresh'.history)
       /\ Len(sub_log') > Len(sub_log) =>
             LET e == sub_log'[Len(sub_log')]
                 appended == refresh'.history # refresh.history
             IN /\ e.flag \in HistoryFlags(refresh.history) =>
                       e.outcome = "processed"
                /\ e.flag \in HistoryFlags(history) => e.outcome = "processed"
                /\ appended <=> e.outcome = "added"
                /\ appended =>
                       /\ Len(refresh'.history) = Len(refresh.history) + 1
                       /\ SubSeq(refresh'.history, 1, Len(refresh.history))
                             = refresh.history
                       /\ refresh'.history[Len(refresh'.history)].unique = e.flag
                /\ history' = history
       /\ Len(sub_log') = Len(sub_log) =>
             \/ refresh'.history = refresh.history
             \/ refresh'.history = history /\ refresh.pc = "idle"
             \/ refresh'.pc = "idle" /\ history' = refresh.history
       /\ \A i, j \in 1..Len(sub_log') :
             (/\ sub_log'[i].flag = sub_log'[j].flag
              /\ sub_log'[i].outcome = "added"
              /\ sub_log'[j].outcome = "added") => i = j]_vars

\* a title was subscribed in the first refresh and its entry stored; the
\* second refresh ranked it again and passed over it
C29_Witness ==
    /\ Len(sub_log) = 2
    /\ sub_log[1].outcome = "added"
    /\ sub_log[1].refresh = 1
    /\ sub_log[2].flag = sub_log[1].flag
    /\ sub_log[2].outcome = "processed"
    /\ sub_log[2].refresh = 2
    /\ refresh.pc = "idle"
    /\ refresh.done = 2
    /\ sub_log[1].flag \in HistoryFlags(history)

----------------------------------------------------------------------------
(* Properties of the ranking plugin's scheduler (checked under SpecScheduler) *)

\* the schedulers that were started and not shut down
LiveSchedulers == {i \in 1..Len(schedulers) : schedulers[i].state = "running"}

\* the job kind is among the jobs of scheduler i
HasJob(scheds, i, kind) ==
    \E k \in 1..Len(scheds[i].jobs) : scheds[i].jobs[k] = kind

\* C30: over any sequence of init_plugin and stop_service calls at most one
\* scheduler is live, and it is the one self._scheduler refers to:
\* init_plugin shuts down and discards the previous scheduler before it
\* creates a new one, it creates one only if the plugin is enabled or
\* onlyonce is set, and the onlyonce and clear flags it acted upon are reset
\* and saved, so that init_plugin with the saved config neither runs the
\* one-shot job nor clears the history again.
C30_AtMostOneLiveScheduler ==
    [][/\ Cardinality({i \in 1..Len(schedulers') :
                          schedulers'[i].state = "running"}) <= 1
       /\ \A i \in 1..Len(schedulers') :
             schedulers'[i].state = "running" => rank'.scheduler = i
       /\ ~rank'.onlyonce /\ ~rank'.clear
       /\ saved_config' # <<>> =>
             (~saved_config'.onlyonce /\ ~saved_config'.clear)
       /\ (rank'.calls > rank.calls /\ rank'.last.call = "init") =>
             LET a == rank'.last.attrs
                 create == a.enabled \/ a.onlyonce
             IN /\ \A i \in 1..Len(schedulers) :
                       /\ schedulers'[i].state # "running"
                       /\ schedulers'[i].jobs = <<>>
                /\ Len(schedulers') = Len(schedulers) + (IF create THEN 1 ELSE 0)
                /\ rank'.scheduler = IF create THEN Len(schedulers') ELSE 0
                /\ create => (HasJob(schedulers', Len(schedulers'), "date")
                                 <=> a.onlyonce)
                /\ history' = IF a.clear THEN <<>> ELSE history
                /\ (a.onlyonce \/ a.clear) =>
                       /\ saved_config' # <<>>
                       /\ saved_config'.enabled = a.enabled
                       /\ saved_config'.cron = a.cron
                /\ rank'.last.saved =>
                       /\ history' = history
                       /\ ~a.onlyonce /\ ~a.clear
                       /\ saved_config' = saved_config
       /\ (rank'.calls > rank.calls /\ rank'.last.call = "stop") =>
             /\ rank'.scheduler = 0
             /\ \A i \in 1..Len(schedulers') : schedulers'[i].state # "running"]_vars

\* init_plugin with onlyonce and clear set started a scheduler with the
\* one-shot job and cleared the history; init_plugin with the config it
\* saved shut that scheduler down and started a second one without the
\* one-shot job
C30_Witness ==
    /\ rank.calls = 2
    /\ rank.last.call = "init"
    /\ rank.last.saved
    /\ rank.last.config.enabled
    /\ Len(schedulers) = 2
    /\ schedulers[1].state = "shutdown"
    /\ schedulers[2].state = "running"
    /\ schedulers[2].jobs = <<"cron">>
    /\ rank.scheduler = 2
    /\ history = <<>>

====
